---- MODULE Spec2Model ----
(***************************************************************************)
(* Verification model of the FHEVM SDK core:                               *)
(*   - the provisioning pipeline createConfiguredFhevmInstance             *)
(*     (core/instance/createInstance.ts), one await point per pc value;    *)
(*   - the instance handle createInstanceHandle (core/instanceHandle.ts),  *)
(*     whose refresh() attempts each run the pipeline.                     *)
(* Spec     : one handle, its attempts interleaved with abort()/refresh(). *)
(* LiveSpec : Spec plus the fairness of the JavaScript event loop.         *)
(* PipeSpec : one pipeline run with an external AbortSignal.               *)
(***************************************************************************)
EXTENDS Integers, Sequences, FiniteSets, TLC

VARIABLES handle, attempts, lastOp, abortedLoading, cache, config, run, signal, trippedAt, log,
          query, mapping, decrypt, store, browser, context, hook, decryptHook

\* the state of the library functions modelled beside the pipeline and the handle
\* the state of the framework bindings (React provider and hooks, Vue plugin and
\* composables)
uiVars == <<context, hook, decryptHook>>

libVars == <<query, mapping, decrypt, store, browser, uiVars>>

vars == <<handle, attempts, lastOp, abortedLoading, cache, config, run, signal, trippedAt, log,
          libVars>>

\* a library function nobody has called
Idle == [pc |-> "idle"]
UiIdle == context = Idle /\ hook = Idle /\ decryptHook = Idle
LibIdle ==
  /\ query = Idle /\ mapping = Idle /\ decrypt = Idle /\ store = Idle /\ browser = Idle
  /\ UiIdle

(***************************************************************************)
(* Bounds                                                                  *)
(***************************************************************************)
\* number of refresh() calls made on the handle
MaxAttempts == 2

(***************************************************************************)
(* Values                                                                  *)
(***************************************************************************)
\* chainId option left undefined
NoChainId == -1
\* Number(...) / parseInt(...) of a malformed chain id
NaNId == -2
\* the conventional local development chain id seeded into combinedMocks
HardhatChainId == 31337
HardhatRpcUrl == "http://localhost:8545"
\* an injected EIP-1193 provider object (anything that is not a string)
Injected == "<eip1193>"
\* no provider argument and no window.ethereum
NoProvider == ""
NoInstance == 0
NoError == "none"
AbortError == "FhevmAbortError"

\* addresses are character sequences; <<>> is an absent field
NoAddr == <<>>
AclA == <<"0", "x", "a">>
KmsA == <<"0", "x", "k">>
IvA == <<"0", "x", "v">>
BadAddr == <<"a", "c", "l">>
\* the address AclA in its checksummed, mixed-case spelling
AclChecksummed == <<"0", "x", "A">>
\* the KMS address and the key URL of a relayerConfig block, the key URL of a
\* chain's metadata
KmsR == <<"0", "x", "r">>
UrlR == <<"r", ".", "k", "e", "y">>
UrlM == <<"m", ".", "k", "e", "y">>

\* PublicKeyRecord: pk / pp are 0 when the field is absent; NullRec is "no record"
NullRec == [pk |-> -1, pp |-> -1]

isHexAddress(value) ==
  /\ Len(value) >= 2
  /\ value[1] = "0"
  /\ value[2] = "x"

\* JavaScript falsiness of a chain id
Falsy(id) == id = 0 \/ id = NaNId

(***************************************************************************)
(* Configuration                                                           *)
(***************************************************************************)
EmptyTable == [i \in {} |-> ""]
HardhatTable == [i \in {HardhatChainId} |-> HardhatRpcUrl]
NoRpcTable == [i \in {5} |-> ""]

\* a table that gives the conventional local chain another endpoint
OtherRpcUrl == "http://127.0.0.1:9545"
RemappedTable == [i \in {HardhatChainId} |-> OtherRpcUrl]

\* an instance config (or a part of one) with none of the modelled fields
NoRelayerConfig ==
  [acl |-> NoAddr, kms |-> NoAddr, inputVerifier |-> NoAddr, kmsPublicKeyUrl |-> NoAddr]

\* chain descriptors: relayer.acl / relayer.kms / relayer.inputVerifier,
\* metadata.kmsPublicKeyUrl and metadata.relayerConfig
FullChain ==
  [acl |-> AclA, kms |-> KmsA, inputVerifier |-> IvA,
   kmsPublicKeyUrl |-> NoAddr, relayerConfig |-> NoRelayerConfig]
PartialChain ==
  [acl |-> AclA, kms |-> NoAddr, inputVerifier |-> BadAddr,
   kmsPublicKeyUrl |-> NoAddr, relayerConfig |-> NoRelayerConfig]
EmptyChain ==
  [acl |-> NoAddr, kms |-> NoAddr, inputVerifier |-> NoAddr,
   kmsPublicKeyUrl |-> NoAddr, relayerConfig |-> NoRelayerConfig]
\* a chain that names its ACL itself (checksummed), takes its KMS address from
\* its relayerConfig block and leaves the input verifier to the adapter
LayeredChain ==
  [acl |-> AclChecksummed, kms |-> NoAddr, inputVerifier |-> NoAddr,
   kmsPublicKeyUrl |-> UrlM,
   relayerConfig |->
     [acl |-> AclA, kms |-> KmsR, inputVerifier |-> NoAddr, kmsPublicKeyUrl |-> UrlR]]
\* a chain configured through its relayerConfig block alone
BlockChain ==
  [acl |-> NoAddr, kms |-> NoAddr, inputVerifier |-> NoAddr,
   kmsPublicKeyUrl |-> NoAddr,
   relayerConfig |->
     [acl |-> AclA, kms |-> KmsR, inputVerifier |-> NoAddr, kmsPublicKeyUrl |-> UrlR]]

NoBaseline == NoRelayerConfig
SepoliaBaseline ==
  [acl |-> AclA, kms |-> KmsA, inputVerifier |-> IvA, kmsPublicKeyUrl |-> NoAddr]

\* the config of the handle specification: chain 1 fully registered,
\* chain 31337 a mock chain, a public-key store present
HandleConfig ==
  [chains |-> [i \in {1} |-> FullChain],
   mockChains |-> HardhatTable,
   hasStore |-> TRUE,
   baseline |-> NoBaseline]

Configs ==
  { [chains |-> ch, mockChains |-> mc, hasStore |-> hs, baseline |-> bl] :
      ch \in {[i \in {} |-> FullChain], [i \in {1} |-> FullChain], [i \in {1} |-> PartialChain]},
      mc \in {EmptyTable, HardhatTable, NoRpcTable},
      hs \in BOOLEAN,
      bl \in {NoBaseline, SepoliaBaseline} }
  \cup
  { [chains |-> [i \in {1} |-> ch], mockChains |-> RemappedTable, hasStore |-> TRUE,
     baseline |-> SepoliaBaseline] : ch \in {LayeredChain, BlockChain} }

\* a combined table in which the built-in entry hides the caller's
CombinedMocksDefaultWins(mockChains) ==
  [i \in {HardhatChainId} \cup DOMAIN mockChains |->
     IF i = HardhatChainId THEN HardhatRpcUrl ELSE mockChains[i]]

\* combinedMocks of resolveNetwork: the built-in entry overlaid with the caller's
CombinedMocks(mockChains) ==
  [i \in {HardhatChainId} \cup DOMAIN mockChains |->
     IF i \in DOMAIN mockChains THEN mockChains[i] ELSE HardhatRpcUrl]

\* getChainDefinition: the registered chain, or an empty descriptor
getChainDefinition(cfg, chainId) ==
  IF chainId \in DOMAIN cfg.chains THEN cfg.chains[chainId] ELSE EmptyChain

Override(base, over) == IF over # NoAddr THEN over ELSE base

\* {...base, ...over} on the modelled fields: a field of over replaces base's
Spread(base, over) == [f \in DOMAIN base |-> Override(base[f], over[f])]

\* buildRelayerConfigOverrides: the relayerConfig block, over which the chain's
\* own key URL and relayer addresses are assigned when they are set
buildRelayerConfigOverrides(chain) ==
  Spread(chain.relayerConfig,
         [acl |-> chain.acl, kms |-> chain.kms, inputVerifier |-> chain.inputVerifier,
          kmsPublicKeyUrl |-> chain.kmsPublicKeyUrl])

\* a merge in which the adapter's baseline has the last word
MergedRelayerConfigBaselineWins(cfg, chainId) ==
  Spread(buildRelayerConfigOverrides(getChainDefinition(cfg, chainId)), cfg.baseline)

\* merged config of resolveRelayerInstanceConfig: the adapter's baseline
\* overlaid with the chain's overrides
MergedRelayerConfig(cfg, chainId) ==
  Spread(cfg.baseline, buildRelayerConfigOverrides(getChainDefinition(cfg, chainId)))

\* a validation that looks at the ACL address only
MissingFieldsAclOnly(merged) ==
  IF isHexAddress(merged.acl) THEN <<>> ELSE <<"aclContractAddress">>

\* the "missing" list of resolveRelayerInstanceConfig
MissingFields(merged) ==
  (IF isHexAddress(merged.acl) THEN <<>> ELSE <<"aclContractAddress">>)
  \o (IF isHexAddress(merged.kms) THEN <<>> ELSE <<"kmsContractAddress">>)
  \o (IF isHexAddress(merged.inputVerifier) THEN <<>> ELSE <<"inputVerifierContractAddress">>)

(***************************************************************************)
(* The provisioning pipeline, createConfiguredFhevmInstance.               *)
(* A run is suspended at one await; run.pc names the awaited call.  Each   *)
(* After... operator is the code that runs when that call settles, up to   *)
(* the next await: aborted is signal.aborted at that moment, o the         *)
(* outcome of the awaited call.                                            *)
(***************************************************************************)
AwaitedSteps ==
  {"load", "init", "getChainId", "clientVersion", "relayerMetadata", "mockCreate",
   "cacheGet", "createInstance", "wrapGet", "wrapFetch", "wrapSet"}

Settled == {"resolved", "rejected"}

\* publicParams: null in the argument of createInstance
NullParams == -1

\* no call of relayerClient.createInstance was made
NoArgs ==
  [relayerConfig |-> NoRelayerConfig, network |-> NoProvider,
   publicKey |-> 0, publicParams |-> NullParams]

\* a run that was never started; args is the argument of its call of
\* relayerClient.createInstance
NoRun ==
  [pc |-> "none", provider |-> NoProvider, chainIdOpt |-> NoChainId, isMock |-> FALSE,
   netChainId |-> NoChainId, rpcUrl |-> "", chainId |-> NoChainId, acl |-> NoAddr,
   relayerConfig |-> NoRelayerConfig, args |-> NoArgs,
   cached |-> NullRec, toWrite |-> NullRec, instance |-> NoInstance, err |-> NoError,
   missing |-> <<>>, onStatusChange |-> FALSE, notes |-> <<>>]

\* notifyStatus: the callback, when one was passed, receives the status
notifyStatus(r, status) ==
  IF r.onStatusChange THEN [r EXCEPT !.notes = Append(r.notes, status)] ELSE r

\* the call of createConfiguredFhevmInstance up to its first await, relayerClient.load()
StartRun(provider, chainIdOpt, onStatusChange) ==
  notifyStatus([NoRun EXCEPT !.pc = "load", !.provider = provider, !.chainIdOpt = chainIdOpt,
                             !.onStatusChange = onStatusChange],
               "sdk-loading")

\* a rejected run keeps its options and what its callback received: its locals
\* are gone with the throw
Reject(r, e) ==
  [NoRun EXCEPT !.pc = "rejected", !.err = e,
                !.provider = r.provider, !.chainIdOpt = r.chainIdOpt,
                !.onStatusChange = r.onStatusChange, !.notes = r.notes]

Resolve(r, inst) == [r EXCEPT !.pc = "resolved", !.instance = inst]

\* a preparation step that calls load() again when it failed
AfterLoadRetries(r, aborted, o) ==
  IF ~o.ok THEN r
  ELSE IF aborted THEN Reject(r, AbortError)
  ELSE [notifyStatus(notifyStatus(r, "sdk-loaded"), "sdk-initializing") EXCEPT !.pc = "init"]

\* ensureRelayerReady after "await relayerClient.load()"
AfterLoad(r, aborted, o) ==
  IF ~o.ok THEN Reject(r, "load")
  ELSE IF aborted THEN Reject(r, AbortError)
  ELSE [notifyStatus(notifyStatus(r, "sdk-loaded"), "sdk-initializing") EXCEPT !.pc = "init"]

\* what relayerClient.init() resolves with: 0 is false, 1 is true
InitResults == {0, 1}

\* a preparation step that gives up when init() returned false
AfterInitFalseFatal(r, aborted, o) ==
  IF ~o.ok \/ o.v = 0 THEN Reject(r, "init")
  ELSE IF aborted THEN Reject(r, AbortError)
  ELSE IF r.provider = NoProvider THEN Reject(notifyStatus(r, "sdk-initialized"), "ProviderRequired")
  ELSE [notifyStatus(r, "sdk-initialized") EXCEPT !.pc = "getChainId"]

\* ensureRelayerReady after "await relayerClient.init()", then the provider
\* check and the call of resolveNetwork up to "await getChainId(...)"
AfterInit(r, aborted, o) ==
  IF ~o.ok THEN Reject(r, "init")
  ELSE IF aborted THEN Reject(r, AbortError)
  ELSE IF r.provider = NoProvider THEN Reject(notifyStatus(r, "sdk-initialized"), "ProviderRequired")
  ELSE [notifyStatus(r, "sdk-initialized") EXCEPT !.pc = "getChainId"]

\* a resolveNetwork that consults the caller's table only, without the built-in entry
resolveNetworkCallerTableOnly(provider, mockChains, reported) ==
  LET url == IF provider # Injected THEN provider ELSE ""
  IN IF reported \in DOMAIN mockChains
       THEN LET rpcUrl == IF url = "" THEN mockChains[reported] ELSE url
            IN [ok |-> rpcUrl # "", isMock |-> TRUE, chainId |-> reported, rpcUrl |-> rpcUrl]
       ELSE [ok |-> TRUE, isMock |-> FALSE, chainId |-> reported, rpcUrl |-> url]

\* resolveNetwork after getChainId: the classification of the reported chain id
resolveNetwork(provider, mockChains, reported) ==
  LET url == IF provider # Injected THEN provider ELSE ""
      combinedMocks == CombinedMocks(mockChains)
  IN IF reported \in DOMAIN combinedMocks
       THEN LET rpcUrl == IF url = "" THEN combinedMocks[reported] ELSE url
            IN [ok |-> rpcUrl # "", isMock |-> TRUE, chainId |-> reported, rpcUrl |-> rpcUrl]
       ELSE [ok |-> TRUE, isMock |-> FALSE, chainId |-> reported, rpcUrl |-> url]

\* createMockInstance up to "await tryFetchFHEVMHardhatNodeRelayerMetadata"
EnterMockPath(r, aborted) ==
  IF aborted THEN Reject(r, AbortError)
  ELSE [r EXCEPT !.pc = "clientVersion"]

\* createRelayerBackedInstance up to "await config.publicKeyStore?.get(aclAddress)"
EnterRealPath(r, cfg) ==
  LET merged == MergedRelayerConfig(cfg, r.chainId)
  IN IF MissingFields(merged) # <<>>
       THEN [Reject(r, "IncompleteRelayerConfig") EXCEPT !.missing = MissingFields(merged)]
     ELSE [r EXCEPT !.pc = "cacheGet", !.relayerConfig = merged, !.acl = merged.acl]

\* a dispatch that sends every network, mock or not, down the relayer-backed path
AfterGetChainIdAlwaysReal(r, aborted, o, cfg) ==
  IF ~o.ok THEN Reject(r, "getChainId")
  ELSE
    LET net == resolveNetwork(r.provider, cfg.mockChains, o.v)
        effectiveChainId == IF r.chainIdOpt # NoChainId THEN r.chainIdOpt ELSE net.chainId
        r1 == [r EXCEPT !.isMock = net.isMock, !.netChainId = net.chainId,
                        !.rpcUrl = net.rpcUrl, !.chainId = effectiveChainId]
    IN IF ~net.ok THEN Reject(r, "MockChainMissingRpc")
       ELSE IF Falsy(effectiveChainId) THEN Reject(r1, "ChainIdUnresolved")
       ELSE EnterRealPath(r1, cfg)

\* an effective chain id taken from the network alone, whatever the chainId option
AfterGetChainIdReportedFirst(r, aborted, o, cfg) ==
  IF ~o.ok THEN Reject(r, "getChainId")
  ELSE
    LET net == resolveNetwork(r.provider, cfg.mockChains, o.v)
        r1 == [r EXCEPT !.isMock = net.isMock, !.netChainId = net.chainId,
                        !.rpcUrl = net.rpcUrl, !.chainId = net.chainId]
    IN IF ~net.ok THEN Reject(r, "MockChainMissingRpc")
       ELSE IF Falsy(net.chainId) THEN Reject(r1, "ChainIdUnresolved")
       ELSE IF net.isMock THEN EnterMockPath(notifyStatus(r1, "creating"), aborted)
       ELSE EnterRealPath(r1, cfg)

\* a dispatch that takes the mock branch when the effective chain id, rather than
\* the reported one, is a key of the combined mock table
AfterGetChainIdEffectiveDecides(r, aborted, o, cfg) ==
  IF ~o.ok THEN Reject(r, "getChainId")
  ELSE
    LET effectiveChainId == IF r.chainIdOpt # NoChainId THEN r.chainIdOpt ELSE o.v
        net == resolveNetwork(r.provider, cfg.mockChains, effectiveChainId)
        r1 == [r EXCEPT !.isMock = net.isMock, !.netChainId = o.v,
                        !.rpcUrl = net.rpcUrl, !.chainId = effectiveChainId]
    IN IF ~net.ok THEN Reject(r, "MockChainMissingRpc")
       ELSE IF Falsy(effectiveChainId) THEN Reject(r1, "ChainIdUnresolved")
       ELSE IF net.isMock THEN EnterMockPath(notifyStatus(r1, "creating"), aborted)
       ELSE EnterRealPath(r1, cfg)

\* createConfiguredFhevmInstance after "await resolveNetwork(...)"
AfterGetChainId(r, aborted, o, cfg) ==
  IF ~o.ok THEN Reject(r, "getChainId")
  ELSE
    LET net == resolveNetwork(r.provider, cfg.mockChains, o.v)
        effectiveChainId == IF r.chainIdOpt # NoChainId THEN r.chainIdOpt ELSE net.chainId
        r1 == [r EXCEPT !.isMock = net.isMock, !.netChainId = net.chainId,
                        !.rpcUrl = net.rpcUrl, !.chainId = effectiveChainId]
    IN IF ~net.ok THEN Reject(r, "MockChainMissingRpc")
       ELSE IF Falsy(effectiveChainId) THEN Reject(r1, "ChainIdUnresolved")
       ELSE IF net.isMock THEN EnterMockPath(notifyStatus(r1, "creating"), aborted)
       ELSE EnterRealPath(r1, cfg)

\* web3_clientVersion answers: 0 not a string, 1 "HardhatNetwork/2.x", 2 "Geth/v1.13"
ClientVersions == {0, 1, 2}
IsHardhatVersion(v) == v = 1

\* tryFetchFHEVMHardhatNodeRelayerMetadata after getWeb3Client; a version that
\* is not Hardhat's returns undefined to createMockInstance
AfterClientVersion(r, aborted, o) ==
  IF ~o.ok THEN Reject(r, "WEB3_CLIENTVERSION_ERROR")
  ELSE IF IsHardhatVersion(o.v) THEN [r EXCEPT !.pc = "relayerMetadata"]
  ELSE IF aborted THEN Reject(r, AbortError)
  ELSE Reject(r, "MockMetadataUnavailable")

\* fhevm_relayer_metadata answers: 0 not an object, 1 three 0x addresses, 2 an
\* object with a malformed address
MetadataAnswers == {0, 1, 2}
IsValidMetadata(v) == v = 1

\* a mock path that hands whatever the metadata call produced to the mock factory
AfterRelayerMetadataUnchecked(r, aborted, o) ==
  IF aborted THEN Reject(r, AbortError)
  ELSE [r EXCEPT !.pc = "mockCreate"]

\* tryFetch... after getFHEVMRelayerMetadata (its failure is caught and becomes
\* undefined), then createMockInstance up to the mock factory call
AfterRelayerMetadata(r, aborted, o) ==
  IF aborted THEN Reject(r, AbortError)
  ELSE IF ~(o.ok /\ IsValidMetadata(o.v)) THEN Reject(r, "MockMetadataUnavailable")
  ELSE [r EXCEPT !.pc = "mockCreate"]

\* createMockInstance after "await fhevmMock.fhevmMockCreateInstance(...)"
AfterMockCreate(r, aborted, o) ==
  IF ~o.ok THEN Reject(r, "mockCreate")
  ELSE IF aborted THEN Reject(r, AbortError)
  ELSE Resolve(r, o.v)

\* the argument of relayerClient.createInstance: the merged config, the provider,
\* cached?.publicKey (0: undefined) and cached?.publicParams ?? null
createInstanceArgs(r, cached) ==
  [relayerConfig |-> r.relayerConfig,
   network |-> r.provider,
   publicKey |-> IF cached = NullRec THEN 0 ELSE cached.pk,
   publicParams |-> IF cached = NullRec \/ cached.pp = 0 THEN NullParams ELSE cached.pp]

\* a creation that passes no cached material to the adapter
AfterCacheGetNoHint(r, aborted, o) ==
  IF ~o.ok THEN Reject(r, "cacheGet")
  ELSE IF aborted THEN Reject(r, AbortError)
  ELSE [notifyStatus(r, "creating") EXCEPT !.pc = "createInstance", !.cached = o.rec,
                                           !.args = createInstanceArgs(r, NullRec)]

\* createRelayerBackedInstance after the cache read
AfterCacheGet(r, aborted, o) ==
  IF ~o.ok THEN Reject(r, "cacheGet")
  ELSE IF aborted THEN Reject(r, AbortError)
  ELSE [notifyStatus(r, "creating") EXCEPT !.pc = "createInstance", !.cached = o.rec,
                                           !.args = createInstanceArgs(r, o.rec)]

\* createRelayerBackedInstance after "await relayerClient.createInstance(...)",
\* then wrapInstanceWithStore up to "await config.publicKeyStore.get(aclAddress)"
AfterCreateInstance(r, aborted, o, cfg) ==
  IF ~o.ok THEN Reject(r, "createInstance")
  ELSE IF aborted THEN Reject(r, AbortError)
  ELSE IF ~cfg.hasStore THEN Resolve(r, o.v)
  ELSE [r EXCEPT !.pc = "wrapGet", !.instance = o.v]

\* a completeness test that is content with the public key
IsCompleteKeyOnly(rec) == rec # NullRec /\ rec.pk > 0

\* cached?.publicKey && cached.publicParams
IsComplete(rec) == rec # NullRec /\ rec.pk > 0 /\ rec.pp > 0

\* a wrapper that fetches and stores the key material whatever the store returned
AfterWrapGetAlwaysFetch(r, o) ==
  IF ~o.ok THEN Reject(r, "cacheGet")
  ELSE [r EXCEPT !.pc = "wrapFetch"]

\* wrapInstanceWithStore after the cache read
AfterWrapGet(r, o) ==
  IF ~o.ok THEN Reject(r, "cacheGet")
  ELSE IF IsComplete(o.rec) THEN Resolve(r, r.instance)
  ELSE [r EXCEPT !.pc = "wrapFetch"]

\* wrapInstanceWithStore after Promise.all([getPublicKey(), getPublicParams(2048)])
AfterWrapFetch(r, o) ==
  IF ~o.ok THEN Reject(r, "getPublicKey")
  ELSE [r EXCEPT !.pc = "wrapSet", !.toWrite = [pk |-> o.v, pp |-> o.w]]

\* wrapInstanceWithStore after "await config.publicKeyStore.set(...)"
AfterWrapSet(r, o) ==
  IF ~o.ok THEN Reject(r, "cacheSet")
  ELSE Resolve(r, r.instance)

\* the continuation of a run whose awaited call settled with outcome o
Advance(r, aborted, o, cfg) ==
  CASE r.pc = "load" -> AfterLoad(r, aborted, o)
    [] r.pc = "init" -> AfterInit(r, aborted, o)
    [] r.pc = "getChainId" -> AfterGetChainId(r, aborted, o, cfg)
    [] r.pc = "clientVersion" -> AfterClientVersion(r, aborted, o)
    [] r.pc = "relayerMetadata" -> AfterRelayerMetadata(r, aborted, o)
    [] r.pc = "mockCreate" -> AfterMockCreate(r, aborted, o)
    [] r.pc = "cacheGet" -> AfterCacheGet(r, aborted, o)
    [] r.pc = "createInstance" -> AfterCreateInstance(r, aborted, o, cfg)
    [] r.pc = "wrapGet" -> AfterWrapGet(r, o)
    [] r.pc = "wrapFetch" -> AfterWrapFetch(r, o)
    [] r.pc = "wrapSet" -> AfterWrapSet(r, o)

\* the store after the awaited call of r settled: only a successful set writes
CacheAfter(c, r, o) ==
  IF r.pc = "wrapSet" /\ o.ok THEN [c EXCEPT ![r.acl] = r.toWrite] ELSE c

\* what the store returns for an address
CacheGet(c, acl) == IF acl \in DOMAIN c THEN c[acl] ELSE NullRec

Fail == [ok |-> FALSE, v |-> 0, w |-> 0, rec |-> NullRec]
Ok(v, w, rec) == [ok |-> TRUE, v |-> v, w |-> w, rec |-> rec]

\* what the environment of a specification can answer: the chain ids a provider
\* may report, the public key / public params an instance may yield (0: none)
PipeEnv == [ids |-> {1, 5, HardhatChainId, NaNId}, keys |-> {0, 1}]
HandleEnv == [ids |-> {1, HardhatChainId}, keys |-> {1}]

\* the outcomes the environment can give the awaited call of r; instId is the
\* identity of the instance a factory would create
Outcomes(r, c, cfg, env, instId) ==
  CASE r.pc = "load" -> {Fail, Ok(0, 0, NullRec)}
    [] r.pc = "init" -> {Fail} \cup {Ok(initialized, 0, NullRec) : initialized \in InitResults}
    [] r.pc = "getChainId" -> {Fail} \cup {Ok(id, 0, NullRec) : id \in env.ids}
    [] r.pc = "clientVersion" -> {Fail} \cup {Ok(v, 0, NullRec) : v \in ClientVersions}
    [] r.pc = "relayerMetadata" -> {Fail} \cup {Ok(v, 0, NullRec) : v \in MetadataAnswers}
    [] r.pc \in {"mockCreate", "createInstance"} -> {Fail, Ok(instId, 0, NullRec)}
    [] r.pc = "cacheGet" ->
         IF cfg.hasStore THEN {Fail, Ok(0, 0, CacheGet(c, r.acl))} ELSE {Ok(0, 0, NullRec)}
    [] r.pc = "wrapGet" -> {Fail, Ok(0, 0, CacheGet(c, r.acl))}
    [] r.pc = "wrapFetch" ->
         {Fail} \cup {Ok(pk, pp, NullRec) : pk \in env.keys, pp \in env.keys}
    [] r.pc = "wrapSet" -> {Fail, Ok(0, 0, NullRec)}

(***************************************************************************)
(* The instance handle, createInstanceHandle.                              *)
(* handle.abortController is the index in attempts of the attempt whose    *)
(* AbortController the handle references, 0 when it is undefined.          *)
(* attempts[n] is the n-th refresh() call: its pipeline run, whether its   *)
(* controller's signal is aborted, and the state of the promise refresh()  *)
(* returned.                                                               *)
(***************************************************************************)
InitHandle ==
  [status |-> "idle", instance |-> NoInstance, error |-> NoError, abortController |-> 0]

\* abort(), on the handle's fields
abort(h) == [h EXCEPT !.abortController = 0, !.status = "idle"]

\* abort() that trips the controller only while its attempt is pending
abortSignalsPendingOnly(h, atts) ==
  [n \in DOMAIN atts |->
     IF n = h.abortController /\ atts[n].promise = "pending"
       THEN [atts[n] EXCEPT !.aborted = TRUE]
       ELSE atts[n]]

\* an abort() that leaves the controller as it is
abortSignalsNone(h, atts) == atts

\* abort(), on the controllers: abortController?.abort()
abortSignals(h, atts) ==
  [n \in DOMAIN atts |->
     IF n = h.abortController THEN [atts[n] EXCEPT !.aborted = TRUE] ELSE atts[n]]

\* refresh() up to the try block: abort(), notify("loading"), error = undefined,
\* abortController = new AbortController()
refreshStart(h, n) ==
  [abort(h) EXCEPT !.status = "loading", !.error = NoError, !.abortController = n]

\* refresh() that stores the instance without notify("ready")
onResolvedNoNotify(h, result) == [h EXCEPT !.instance = result]

\* refresh() after the await in the try block returned result
onResolved(h, result) ==
  [h EXCEPT !.instance = result, !.status = "ready"]

\* a catch block without the signal.aborted test
onRejectedNoAbortCheck(h, aborted, err) == [h EXCEPT !.error = err, !.status = "error"]

\* the catch block of refresh()
onRejected(h, aborted, err) ==
  IF aborted
    THEN [h EXCEPT !.status = "idle"]
    ELSE [h EXCEPT !.error = err, !.status = "error"]

\* the settlement of the promise refresh() returned, given whether an
\* exception escaped the body: the try block covers the whole pipeline call and
\* the catch block throws nothing
refreshPromise(escaped) == IF escaped THEN "rejected" ELSE "fulfilled"

\* a catch block that rethrows the cancellation
catchRethrowsOnAbort(aborted, err) == aborted

\* exceptions that leave the catch block of refresh()
catchRethrows(aborted, err) == FALSE

\* provider arguments of refresh(): none and a throwing defaultProvider(), none
\* and no default, an injected provider, a literal URL
Throws == "<throws>"
RefreshProviders == {Throws, NoProvider, Injected}

Latest == Len(attempts)

\* refresh(options): synchronous up to the first await of the pipeline; a
\* defaultProvider() that throws is caught at once by the catch block
Refresh(provider) ==
  /\ Len(attempts) < MaxAttempts
  /\ LET n == Len(attempts) + 1
         started == refreshStart(handle, n)
         threw == provider = Throws
     IN /\ handle' = IF threw THEN onRejected(started, FALSE, "defaultProvider") ELSE started
        /\ attempts' = Append(abortSignals(handle, attempts),
             [run |-> IF threw THEN Reject(NoRun, "defaultProvider")
                               ELSE StartRun(provider, NoChainId, FALSE),
              aborted |-> FALSE,
              promise |-> IF threw THEN refreshPromise(catchRethrows(FALSE, "defaultProvider"))
                                   ELSE "pending"])
        /\ lastOp' = [op |-> "refresh", att |-> n]
  /\ abortedLoading' = FALSE
  /\ UNCHANGED <<cache, config, run, signal, trippedAt, log, libVars>>

\* handle.abort()
Abort ==
  /\ handle' = abort(handle)
  /\ attempts' = abortSignals(handle, attempts)
  /\ lastOp' = [op |-> "abort", att |-> handle.abortController]
  /\ abortedLoading' = (abortedLoading \/ handle.status = "loading")
  /\ UNCHANGED <<cache, config, run, signal, trippedAt, log, libVars>>

\* the awaited call of attempt n's pipeline run settles
PipelineStep(n) ==
  /\ n \in DOMAIN attempts
  /\ attempts[n].run.pc \in AwaitedSteps
  /\ \E o \in Outcomes(attempts[n].run, cache, config, HandleEnv, n) :
       /\ attempts' = [attempts EXCEPT
            ![n].run = Advance(attempts[n].run, attempts[n].aborted, o, config)]
       /\ cache' = CacheAfter(cache, attempts[n].run, o)
  /\ UNCHANGED <<handle, lastOp, abortedLoading, config, run, signal, trippedAt, log, libVars>>

\* refresh() resumes after its await: the pipeline run of attempt n has settled
Settle(n) ==
  /\ n \in DOMAIN attempts
  /\ attempts[n].promise = "pending"
  /\ attempts[n].run.pc \in Settled
  /\ LET a == attempts[n]
     IN IF a.run.pc = "resolved"
          THEN /\ handle' = onResolved(handle, a.run.instance)
               /\ attempts' = [attempts EXCEPT ![n].promise = refreshPromise(FALSE)]
          ELSE /\ handle' = onRejected(handle, a.aborted, a.run.err)
               /\ attempts' = [attempts EXCEPT
                    ![n].promise = refreshPromise(catchRethrows(a.aborted, a.run.err))]
  /\ lastOp' = [op |-> "settle", att |-> n]
  /\ UNCHANGED <<abortedLoading, cache, config, run, signal, trippedAt, log, libVars>>

Init ==
  /\ handle = InitHandle
  /\ attempts = <<>>
  /\ lastOp = [op |-> "init", att |-> 0]
  /\ abortedLoading = FALSE
  /\ cache = [a \in {AclA} |-> NullRec]
  /\ config = HandleConfig
  /\ run = NoRun
  /\ signal = FALSE
  /\ trippedAt = "none"
  /\ log = <<>>
  /\ LibIdle

Next ==
  \/ \E p \in RefreshProviders : Refresh(p)
  \/ Abort
  \/ \E n \in 1..MaxAttempts : PipelineStep(n)
  \/ \E n \in 1..MaxAttempts : Settle(n)

Spec == Init /\ [][Next]_vars

\* a continuation that is ready to run: an awaited call of some pipeline run
\* settles, or some refresh() resumes
Progress == \E n \in 1..MaxAttempts : PipelineStep(n) \/ Settle(n)

\* the event loop keeps running ready continuations, and every awaited call of
\* a pipeline run is assumed to settle
LiveSpec == Spec /\ WF_vars(Progress)

(***************************************************************************)
(* One pipeline run under an AbortSignal the caller passed in.             *)
(* trippedAt is the await the run was suspended at when the signal was     *)
(* aborted; log is the external calls the run has awaited so far, each     *)
(* with its outcome.                                                       *)
(***************************************************************************)
PipeProviders == {NoProvider, Injected, HardhatRpcUrl}
PipeChainIds == {NoChainId, 0, 1, 5}

PipeInit ==
  /\ handle = InitHandle
  /\ attempts = <<>>
  /\ lastOp = [op |-> "init", att |-> 0]
  /\ abortedLoading = FALSE
  /\ cache \in {c \in [{AclA, AclChecksummed} ->
                          {NullRec, [pk |-> 1, pp |-> 0], [pk |-> 1, pp |-> 1]}] :
                  c[AclChecksummed] = NullRec}
  /\ config \in Configs
  /\ run \in {StartRun(p, c, cb) : p \in PipeProviders, c \in PipeChainIds, cb \in BOOLEAN}
  /\ signal = FALSE
  /\ trippedAt = "none"
  /\ log = <<>>
  /\ LibIdle

\* the caller aborts the signal while the run is suspended at an await
TripSignal ==
  /\ ~signal
  /\ run.pc \in AwaitedSteps
  /\ signal' = TRUE
  /\ trippedAt' = run.pc
  /\ UNCHANGED <<handle, attempts, lastOp, abortedLoading, cache, config, run, log, libVars>>

\* the awaited call of the run settles
RunStep ==
  /\ run.pc \in AwaitedSteps
  /\ \E o \in Outcomes(run, cache, config, PipeEnv, 1) :
       /\ run' = Advance(run, signal, o, config)
       /\ cache' = CacheAfter(cache, run, o)
       /\ log' = Append(log, [op |-> run.pc, ok |-> o.ok, v |-> o.v])
  /\ UNCHANGED <<handle, attempts, lastOp, abortedLoading, config, signal, trippedAt, libVars>>

PipeNext == TripSignal \/ RunStep

PipeSpec == PipeInit /\ [][PipeNext]_vars

(***************************************************************************)
(* Independent callers of createConfiguredFhevmInstance that share one     *)
(* configuration, and with it one public-key store: each call is an entry  *)
(* of attempts, none is aborted, and their awaits settle in any order.     *)
(***************************************************************************)
ShareProviders == {Injected, HardhatRpcUrl}

\* createConfiguredFhevmInstance(config, {provider}) called by one more caller
StartProvision(provider) ==
  /\ Len(attempts) < MaxAttempts
  /\ attempts' = Append(attempts,
       [run |-> StartRun(provider, NoChainId, FALSE), aborted |-> FALSE, promise |-> "pending"])
  /\ UNCHANGED <<handle, lastOp, abortedLoading, cache, config, run, signal, trippedAt, log, libVars>>

ShareNext ==
  \/ \E p \in ShareProviders : StartProvision(p)
  \/ \E n \in 1..MaxAttempts : PipelineStep(n)

ShareSpec == Init /\ [][ShareNext]_vars

(***************************************************************************)
(* Properties of the instance handle                                       *)
(***************************************************************************)
\* refresh() resumed for attempt n in this step
SettledNow(n) == attempts[n].promise = "pending" /\ attempts'[n].promise # "pending"

VisibleUnchanged ==
  /\ handle'.status = handle.status
  /\ handle'.instance = handle.instance
  /\ handle'.error = handle.error

\* C1: once a later refresh() has started, the settlement of an earlier attempt
\* changes none of status, instance and error.
C1_SupersededNeverWrites ==
  [][\A n \in DOMAIN attempts : (n < Latest /\ SettledNow(n)) => VisibleUnchanged]_vars

\* C2: from an abort() made while status was loading until the next refresh(),
\* status is idle and instance and error are both undefined.
C2_AbortWhileLoadingStaysIdle ==
  abortedLoading =>
    /\ handle.status = "idle"
    /\ handle.instance = NoInstance
    /\ handle.error = NoError

\* C3: status starts at idle and changes only along: any -> loading by refresh()
\* (a refresh() whose default provider throws goes on to error within the call),
\* loading -> ready, loading -> error, loading -> idle, any -> idle by abort().
C3_StatusEdges ==
  /\ (lastOp.op = "init" => handle.status = "idle")
  /\ [][handle'.status # handle.status =>
          \/ Len(attempts') > Len(attempts)
          \/ handle.status = "loading" /\ handle'.status \in {"ready", "error", "idle"}
          \/ handle'.status = "idle" /\ lastOp'.op = "abort"]_vars

\* C4: right after refresh(), while its pipeline run is pending, every earlier
\* attempt's signal is aborted, status is loading, instance and error are undefined.
C4_RefreshClears ==
  (lastOp.op = "refresh" /\ attempts[Latest].run.pc \in AwaitedSteps) =>
    /\ \A m \in 1..(Latest - 1) : attempts[m].aborted
    /\ handle.status = "loading"
    /\ handle.instance = NoInstance
    /\ handle.error = NoError

\* C5: status = ready implies instance defined and error undefined; status =
\* error implies error defined and instance undefined.
C5_StatusFieldsAgree ==
  /\ handle.status = "ready" => (handle.instance # NoInstance /\ handle.error = NoError)
  /\ handle.status = "error" => (handle.error # NoError /\ handle.instance = NoInstance)

\* C6: the settlement of an attempt whose signal is aborted neither sets status
\* to error nor writes the error field, whatever the run rejected with.
C6_CancelledNeverError ==
  [][\A n \in DOMAIN attempts : (SettledNow(n) /\ attempts[n].aborted) =>
        (handle'.status # "error" /\ handle'.error = handle.error)]_vars

\* an aborted attempt whose run rejected with a non-cancellation error has
\* settled, and the handle is idle
C6_Witness ==
  \E n \in DOMAIN attempts :
    /\ attempts[n].aborted
    /\ attempts[n].run.pc = "rejected"
    /\ attempts[n].run.err \notin {AbortError, NoError}
    /\ attempts[n].promise = "fulfilled"
    /\ lastOp = [op |-> "settle", att |-> n]
    /\ handle.status = "idle"

\* C7: the promise returned by refresh() never rejects.
C7_RefreshNeverRejects ==
  \A n \in DOMAIN attempts : attempts[n].promise # "rejected"

\* refresh() promises have fulfilled after a cancellation and after a failure
\* of the default provider
C7_Witness ==
  /\ \E n \in DOMAIN attempts :
       attempts[n].run.err = AbortError /\ attempts[n].promise = "fulfilled"
  /\ \E n \in DOMAIN attempts :
       attempts[n].run.err = "defaultProvider" /\ attempts[n].promise = "fulfilled"

Terminal == {"ready", "error", "idle"}

\* no refresh() is waiting for its pipeline run
Quiet == \A n \in DOMAIN attempts : attempts[n].promise # "pending"

C9_AbortIdleAndTrips ==
  lastOp.op = "abort" =>
    /\ handle.status = "idle"
    /\ (Latest > 0 => attempts[Latest].aborted)

\* abort() tripped the controller of the latest attempt after that attempt had
\* settled with an instance
C9_Witness ==
  /\ Latest > 0
  /\ lastOp = [op |-> "abort", att |-> Latest]
  /\ attempts[Latest].run.pc = "resolved"
  /\ attempts[Latest].promise = "fulfilled"
  /\ attempts[Latest].aborted
  /\ handle.status = "idle"

(***************************************************************************)
(* Properties of the provisioning pipeline                                 *)
(***************************************************************************)
\* errors a run rejects with because an awaited external call failed
StepFailures ==
  {"load", "init", "getChainId", "WEB3_CLIENTVERSION_ERROR", "mockCreate", "cacheGet",
   "createInstance", "getPublicKey", "cacheSet"}

\* C10: a run whose signal was tripped while one of its awaited steps was in
\* progress (and whose awaited calls did not fail by themselves) fails with the
\* cancellation error and returns no instance.
C10_TrippedRunIsCancelled ==
  (run.pc \in Settled /\ trippedAt \in AwaitedSteps /\ run.err \notin StepFailures) =>
    (run.pc = "rejected" /\ run.err = AbortError /\ run.instance = NoInstance)


\* the last external call the run awaited, with its outcome
NoCall == [op |-> "none", ok |-> TRUE, v |-> 0]
LastCall == IF log = <<>> THEN NoCall ELSE log[Len(log)]

\* the external calls the run has issued: those that settled and the pending one
Issued == {log[i].op : i \in DOMAIN log} \cup ({run.pc} \cap AwaitedSteps)

\* the chain id the provider reported, once getChainId has answered
HasReported == \E i \in DOMAIN log : log[i].op = "getChainId" /\ log[i].ok
ReportedId == (CHOOSE e \in {log[i] : i \in DOMAIN log} : e.op = "getChainId").v

\* C11: when publicKeyStore.set fails after the instance was created, provision
\* still succeeds and returns the created instance.
C11_CacheWriteFailureTolerated ==
  (LastCall.op = "wrapSet" /\ ~LastCall.ok) =>
    (run.pc = "resolved" /\ run.instance # NoInstance)

\* the run holds a network resolution
Classified == run.netChainId # NoChainId

\* C12 as stated: a reported chain id is classified Mock exactly when it is a key
\* of the caller-supplied mock-chain table.
C12_MockIffInCallerTable ==
  Classified => (run.isMock <=> run.netChainId \in DOMAIN config.mockChains)

\* C12 amended: a reported chain id is classified Mock exactly when it is 31337
\* or a key of the caller-supplied mock-chain table, and Real otherwise.
C12_MockIffInCombinedTable ==
  Classified =>
    (run.isMock <=>
       (run.netChainId = HardhatChainId \/ run.netChainId \in DOMAIN config.mockChains))

\* an injected provider reporting 31337 is classified Mock although the caller's
\* table has no such key
C12_Witness ==
  /\ run.provider = Injected
  /\ run.isMock
  /\ run.netChainId = HardhatChainId
  /\ HardhatChainId \notin DOMAIN config.mockChains
  /\ run.rpcUrl = HardhatRpcUrl

\* the value of "chainId ?? net.chainId" for the run's option and reported id
ExplicitOrReported == IF run.chainIdOpt # NoChainId THEN run.chainIdOpt ELSE ReportedId

C13_ZeroWitness ==
  run.err = "ChainIdUnresolved" /\ run.chainIdOpt = 0 /\ HasReported /\ ReportedId = 1

\* the provider reported a chain id of the combined mock table
MockReported ==
  HasReported /\ (ReportedId = HardhatChainId \/ ReportedId \in DOMAIN config.mockChains)

\* the calls of the relayer-backed path: the public-key store and the adapter
StoreAndAdapterOps == {"cacheGet", "createInstance", "wrapGet", "wrapFetch", "wrapSet"}

\* C14: a run whose network is a mock chain never calls the public-key store
\* (get, set) nor the adapter's createInstance, and leaves the cache as it was.
C14_MockPathLeavesCacheAlone ==
  [][MockReported' => (Issued' \cap StoreAndAdapterOps = {} /\ cache' = cache)]_vars

\* a mock run that returned the mock instance under a configuration with a store
C14_Witness ==
  /\ MockReported /\ config.hasStore
  /\ run.pc = "resolved" /\ run.isMock /\ run.instance # NoInstance
  /\ Issued \cap StoreAndAdapterOps = {}

\* the node's answers do not qualify it as an FHEVM Hardhat node: the client
\* version is not Hardhat's, or the metadata call failed or returned a shape
\* other than three 0x addresses
NodeDisqualified ==
  \E i \in DOMAIN log :
    \/ log[i].op = "clientVersion" /\ log[i].ok /\ ~IsHardhatVersion(log[i].v)
    \/ log[i].op = "relayerMetadata" /\ ~(log[i].ok /\ IsValidMetadata(log[i].v))

\* C15: on the mock path, a client version without "hardhat" or a failed or
\* malformed fhevm_relayer_metadata answer makes provisioning fail: no instance is
\* created, mock or real, and the relayer-backed path is not entered.
C15_DisqualifiedNodeFails ==
  NodeDisqualified =>
    /\ run.pc = "rejected" /\ run.instance = NoInstance
    /\ Issued \cap (StoreAndAdapterOps \cup {"mockCreate"}) = {}

\* a Hardhat node whose metadata has a malformed address
C15_Witness ==
  /\ LastCall = [op |-> "relayerMetadata", ok |-> TRUE, v |-> 2]
  /\ run.err = "MockMetadataUnavailable"
  /\ MockReported /\ run.pc = "rejected"

\* C16: a failed web3_clientVersion call reaches the caller as
\* WEB3_CLIENTVERSION_ERROR and a failed fhevm_relayer_metadata call as
\* FHEVM_RELAYER_METADATA_ERROR (runs whose signal was not aborted).
C16_ProbeFailureCodes ==
  /\ (LastCall.op = "clientVersion" /\ ~LastCall.ok) =>
       run.err = "WEB3_CLIENTVERSION_ERROR"
  /\ (LastCall.op = "relayerMetadata" /\ ~LastCall.ok /\ ~signal) =>
       run.err = "FHEVM_RELAYER_METADATA_ERROR"

\* the run went down the relayer-backed path: the reported chain id is no mock
\* chain and the effective chain id is usable
RealPathEntered == HasReported /\ ~MockReported /\ ~Falsy(ExplicitOrReported)

\* a value that is a string starting with "0x"
Starts0x(a) == Len(a) >= 2 /\ a[1] = "0" /\ a[2] = "x"

\* the fields of the run's merged relayer config that are absent or not 0x strings
BadFields ==
  LET merged == MergedRelayerConfig(config, ExplicitOrReported)
  IN {f \in {"acl", "kms", "inputVerifier"} : ~Starts0x(merged[f])}

FieldName(f) == f \o "ContractAddress"
Listed(q) == {q[i] : i \in DOMAIN q}

\* C17: on the real path the run fails with the incomplete-relayer-config error
\* exactly when a merged contract address is absent or not 0x-prefixed; the error
\* lists exactly those fields; the cache is not read, 'creating' is not emitted and
\* createInstance is not called.
C17_IncompleteConfigExactly ==
  RealPathEntered =>
    /\ run.err = "IncompleteRelayerConfig" <=> BadFields # {}
    /\ run.err = "IncompleteRelayerConfig" =>
         /\ Listed(run.missing) = {FieldName(f) : f \in BadFields}
         /\ Len(run.missing) = Cardinality(BadFields)
         /\ "creating" \notin Listed(run.notes)
         /\ Issued \cap StoreAndAdapterOps = {}

\* a registered chain whose malformed input-verifier address shadows the
\* baseline's while its absent KMS address is filled from the baseline: only the
\* input verifier is listed, and the status callback saw the SDK steps
C17_Witness ==
  /\ RealPathEntered /\ run.err = "IncompleteRelayerConfig"
  /\ config.baseline = SepoliaBaseline
  /\ run.missing = <<"inputVerifierContractAddress">>
  /\ run.onStatusChange /\ "sdk-initialized" \in Listed(run.notes)

\* C18: a real-path run for an effective chain id that is not in the config's
\* chain table never calls createInstance and never holds an instance.
C18_UnregisteredChainIsFatal ==
  (RealPathEntered /\ ExplicitOrReported \notin DOMAIN config.chains) =>
    (run.instance = NoInstance /\ "createInstance" \notin Issued)

\* how often the run has called op: settled calls and the pending one
Calls(op) ==
  Cardinality({i \in DOMAIN log : log[i].op = op}) + (IF run.pc = op THEN 1 ELSE 0)

\* C20: within one run load(), init(), the chain-id query and createInstance()
\* are each called at most once; a call that failed is the run's last call and
\* the run is rejected; a rejected run calls nothing more and writes nothing.
C20_NoRetries ==
  [][/\ \A op \in {"load", "init", "getChainId", "createInstance"} : Calls(op)' <= 1
     /\ \A i \in DOMAIN log' :
          ~log'[i].ok => (i = Len(log') /\ run'.pc = "rejected")
     /\ run.pc = "rejected" => (run' = run /\ log' = log /\ cache' = cache)
    ]_vars

\* createInstance failed after load, init, the chain-id query and the cache read
\* succeeded: five calls were made, the last one is the failed one
C20_Witness ==
  /\ run.pc = "rejected" /\ run.err = "createInstance"
  /\ Len(log) = 5
  /\ LastCall.op = "createInstance" /\ ~LastCall.ok
  /\ \A op \in {"load", "init", "getChainId", "createInstance"} : Calls(op) = 1

(***************************************************************************)
(* Properties of callers sharing the public-key store                      *)
(***************************************************************************)
\* attempt n succeeded and stored key material on its way
Wrote(n) == attempts[n].run.pc = "resolved" /\ attempts[n].run.toWrite # NullRec

\* attempt n succeeded on the real path without storing anything
OnlyRead(n) ==
  /\ attempts[n].run.pc = "resolved" /\ ~attempts[n].run.isMock
  /\ attempts[n].run.toWrite = NullRec

\* C19 as stated: among successful real-path attempts on one ACL address, in any
\* sequence or interleaving, exactly one writes the cache.
C19_SingleWriter == Cardinality({n \in DOMAIN attempts : Wrote(n)}) <= 1

\* C19 amended: the cache changes only by the set of an attempt whose own read
\* after creation found no complete record; an attempt whose read finds a
\* complete record returns without writing; a complete record stays complete.
\* So of attempts that run one after another only the first writes, while
\* attempts that overlap may each write.
C19_WriteOnlyAfterMiss ==
  [][/\ \A n \in DOMAIN attempts :
          LET a == attempts[n].run
              b == attempts'[n].run
          IN (a.pc = "wrapGet" /\ b.pc \notin {"wrapGet", "rejected"}
                /\ IsComplete(cache[a.acl])) =>
               (b.pc = "resolved" /\ b.toWrite = NullRec /\ cache' = cache)
     /\ cache' # cache =>
          \E n \in DOMAIN attempts :
            /\ attempts[n].run.pc = "wrapSet" /\ attempts'[n].run.pc = "resolved"
            /\ cache' = [cache EXCEPT ![attempts[n].run.acl] = attempts[n].run.toWrite]
     /\ \A a \in DOMAIN cache : IsComplete(cache[a]) => IsComplete(cache'[a])
    ]_vars

\* the first caller stored the record, a later caller found it and only read
C19_Witness ==
  /\ Len(attempts) >= 2
  /\ Wrote(1) /\ OnlyRead(2)
  /\ attempts[1].run.acl = attempts[2].run.acl
  /\ cache[attempts[1].run.acl] = attempts[1].run.toWrite

(***************************************************************************)
(* Library functions.  Each is called once on inputs drawn by the initial  *)
(* state of its specification; the handle and the pipeline stay untouched. *)
(***************************************************************************)
coreVars ==
  <<handle, attempts, lastOp, abortedLoading, cache, config, run, signal, trippedAt, log>>

CoreIdle ==
  /\ handle = InitHandle
  /\ attempts = <<>>
  /\ lastOp = [op |-> "init", att |-> 0]
  /\ abortedLoading = FALSE
  /\ cache = [a \in {AclA} |-> NullRec]
  /\ config = HandleConfig
  /\ run = NoRun
  /\ signal = FALSE
  /\ trippedAt = "none"
  /\ log = <<>>

\* the elements of a list in order of first appearance, as the keys of a Map or
\* the values of a Set filled from it enumerate
RECURSIVE Distinct(_)
Distinct(q) ==
  IF q = <<>> THEN <<>>
  ELSE LET d == Distinct(SubSeq(q, 1, Len(q) - 1))
           x == q[Len(q)]
       IN IF \E i \in DOMAIN d : d[i] = x THEN d ELSE Append(d, x)

\* the integer keys of an object enumerate in ascending order, whatever the
\* order they were written in
RECURSIVE Ascending(_)
Ascending(S) ==
  IF S = {} THEN <<>>
  ELSE LET m == CHOOSE x \in S : \A y \in S : x <= y
       IN <<m>> \o Ascending(S \ {m})

ObjectKeys(rec) == Ascending(DOMAIN rec)

\* the object { id: url, ... } a caller writes with its entries in this order
ObjectLiteral(ids) == [i \in {ids[k] : k \in DOMAIN ids} |-> HardhatRpcUrl]

(***************************************************************************)
(* Chain registry: createFhevmConfig and resolveDefaultChainId             *)
(* (core/config/index.ts).  Options: the chain list, the defaultChainId    *)
(* option and the mock-chain entries as the caller wrote them.             *)
(***************************************************************************)
\* createFhevmConfig: the chain Map keeps insertion order, the default falls
\* back to the first chain of the list
createFhevmConfig(options) ==
  [defaultChainId |->
     IF options.defaultChainId # NoChainId THEN options.defaultChainId
     ELSE IF options.chains # <<>> THEN options.chains[1]
     ELSE NoChainId,
   chainIds |-> Distinct(options.chains),
   mockChains |-> ObjectLiteral(options.mockEntries)]

\* a FhevmConfig object assembled without the factory: defaultChainId as given
literalFhevmConfig(options) ==
  [defaultChainId |-> options.defaultChainId,
   chainIds |-> Distinct(options.chains),
   mockChains |-> ObjectLiteral(options.mockEntries)]

\* a resolution that prefers the config's default to the mock table
resolveDefaultChainIdDefaultFirst(chainId, cfg, isMockEnvironment) ==
  IF chainId # NoChainId THEN [ok |-> TRUE, id |-> chainId]
  ELSE IF cfg.defaultChainId # NoChainId THEN [ok |-> TRUE, id |-> cfg.defaultChainId]
  ELSE IF isMockEnvironment /\ DOMAIN cfg.mockChains # {}
    THEN [ok |-> TRUE, id |-> ObjectKeys(cfg.mockChains)[1]]
  ELSE IF cfg.chainIds # <<>> THEN [ok |-> TRUE, id |-> cfg.chainIds[1]]
  ELSE [ok |-> FALSE, id |-> NoChainId]

\* resolveDefaultChainId; ok = FALSE is the "no default chain ID" error
resolveDefaultChainId(chainId, cfg, isMockEnvironment) ==
  IF chainId # NoChainId THEN [ok |-> TRUE, id |-> chainId]
  ELSE IF isMockEnvironment /\ DOMAIN cfg.mockChains # {}
    THEN [ok |-> TRUE, id |-> ObjectKeys(cfg.mockChains)[1]]
  ELSE LET id == IF cfg.defaultChainId # NoChainId THEN cfg.defaultChainId
                 ELSE IF cfg.chainIds # <<>> THEN cfg.chainIds[1]
                 ELSE NoChainId
       IN IF id = NoChainId THEN [ok |-> FALSE, id |-> NoChainId]
          ELSE [ok |-> TRUE, id |-> id]

ChainLists == {<<>>, <<1>>, <<5>>, <<1, 5>>, <<5, 1>>, <<5, 1, 5>>}
MockEntryLists == {<<>>, <<5>>, <<HardhatChainId>>, <<5, HardhatChainId>>, <<HardhatChainId, 5>>}
FhevmConfigOptions ==
  [chains : ChainLists, defaultChainId : {NoChainId, 1, 7}, mockEntries : MockEntryLists]

DefaultInit ==
  /\ CoreIdle
  /\ query \in [pc : {"called"}, options : FhevmConfigOptions, viaFactory : BOOLEAN,
                chainId : {NoChainId, 0, 5, 9}, isMockEnvironment : BOOLEAN,
                result : {[ok |-> FALSE, id |-> NoChainId]}]
  /\ mapping = Idle /\ decrypt = Idle /\ store = Idle /\ browser = Idle /\ UiIdle

\* resolveDefaultChainId(chainId, config, isMockEnvironment) returns or throws
ResolveDefault ==
  /\ query.pc = "called"
  /\ LET cfg == IF query.viaFactory THEN createFhevmConfig(query.options)
                ELSE literalFhevmConfig(query.options)
     IN query' = [query EXCEPT !.pc = "returned",
                    !.result = resolveDefaultChainId(query.chainId, cfg, query.isMockEnvironment)]
  /\ UNCHANGED <<coreVars, mapping, decrypt, store, browser, uiVars>>

DefaultSpec == DefaultInit /\ [][ResolveDefault]_vars

\* the precedence of the claim, with the mock table contributing the id "mock"
Precedence(mock) ==
  LET o == query.options
  IN IF query.chainId # NoChainId THEN query.chainId
     ELSE IF query.isMockEnvironment /\ o.mockEntries # <<>> THEN mock
     ELSE IF o.defaultChainId # NoChainId THEN o.defaultChainId
     ELSE IF o.chains # <<>> THEN o.chains[1]
     ELSE NoChainId

Returned(expected) ==
  query.pc = "returned" =>
    /\ query.result.ok <=> expected # NoChainId
    /\ query.result.id = expected

\* C21 as stated: explicit id, else in a mock context the first configured
\* mock-chain id, else the stated default, else the first registered chain,
\* else the no-default-chain error.
C21_FirstConfiguredMock == Returned(Precedence(query.options.mockEntries[1]))

\* C21 amended: as stated, with the mock table contributing its numerically
\* smallest chain id (the first key the table enumerates).
C21_SmallestMock ==
  Returned(Precedence(
    CHOOSE m \in {query.options.mockEntries[k] : k \in DOMAIN query.options.mockEntries} :
      \A k \in DOMAIN query.options.mockEntries : m <= query.options.mockEntries[k]))

\* a mock context whose table was written {31337: ..., 5: ...}, and a stated
\* default that is passed over: the result is 5
C21_Witness ==
  /\ query.pc = "returned" /\ query.chainId = NoChainId /\ query.isMockEnvironment
  /\ query.options.mockEntries = <<HardhatChainId, 5>>
  /\ query.options.defaultChainId = 7
  /\ query.result = [ok |-> TRUE, id |-> 5]

(***************************************************************************)
(* buildParamsFromAbi (core/config.ts, crypto part): the arguments of a    *)
(* contract call from an encryption result and the function's ABI inputs.  *)
(* Names are character lists, so that the "proof" test is computed.        *)
(***************************************************************************)
Lower(c) ==
  CASE c = "P" -> "p" [] c = "R" -> "r" [] c = "O" -> "o" [] c = "F" -> "f"
    [] c = "Z" -> "z" [] c = "A" -> "a" [] OTHER -> c

toLowerCase(str) == [i \in DOMAIN str |-> Lower(str[i])]

includes(str, sub) ==
  \E i \in 0..(Len(str) - Len(sub)) : SubSeq(str, i + 1, i + Len(sub)) = sub

ProofWord == <<"p", "r", "o", "o", "f">>

\* a test that looks at the parameter's name only, in the case it is written in
isProofParameterNameOnly(input) == includes(input.name, ProofWord)

\* isProofParameter; an absent name or internalType is the empty list
isProofParameter(input) ==
  \/ includes(toLowerCase(input.name), ProofWord)
  \/ includes(toLowerCase(input.internalType), ProofWord)

\* the conversion buildParamsFromAbi applies for an ABI type
Coercion(type) ==
  CASE type = "bool" -> "coerceBool"
    [] type \in {"address", "string"} -> "coerceAddressOrString"
    [] type \in {"uint256", "int256"} -> "coerceUintToBigInt"
    [] OTHER -> "toHex"

\* where an argument came from: handle number k, or the input proof
ProofSrc == 0
NoProof == <<>>

\* a fallback that takes the proof for every parameter left without a handle
ChooseRawReusesProof(enc, input, handleIndex, proofConsumed) ==
  IF isProofParameter(input)
    THEN IF enc.inputProof = NoProof
           THEN [ok |-> FALSE, err |-> "MissingInputProof", src |-> ProofSrc,
                 handleIndex |-> handleIndex, proofConsumed |-> proofConsumed]
         ELSE [ok |-> TRUE, err |-> "none", src |-> ProofSrc,
               handleIndex |-> handleIndex, proofConsumed |-> TRUE]
  ELSE IF handleIndex + 1 <= Len(enc.handles)
    THEN [ok |-> TRUE, err |-> "none", src |-> handleIndex + 1,
          handleIndex |-> handleIndex + 1, proofConsumed |-> proofConsumed]
  ELSE IF enc.inputProof # NoProof
    THEN [ok |-> TRUE, err |-> "none", src |-> ProofSrc,
          handleIndex |-> handleIndex, proofConsumed |-> TRUE]
  ELSE [ok |-> FALSE, err |-> "InsufficientHandles", src |-> ProofSrc,
        handleIndex |-> handleIndex, proofConsumed |-> proofConsumed]

\* the body of the map callback up to "const type = input.type": the raw value
\* chosen for one parameter and the counters after it
ChooseRaw(enc, input, handleIndex, proofConsumed) ==
  IF isProofParameter(input)
    THEN IF enc.inputProof = NoProof
           THEN [ok |-> FALSE, err |-> "MissingInputProof", src |-> ProofSrc,
                 handleIndex |-> handleIndex, proofConsumed |-> proofConsumed]
         ELSE [ok |-> TRUE, err |-> "none", src |-> ProofSrc,
               handleIndex |-> handleIndex, proofConsumed |-> TRUE]
  ELSE IF handleIndex + 1 <= Len(enc.handles)
    THEN [ok |-> TRUE, err |-> "none", src |-> handleIndex + 1,
          handleIndex |-> handleIndex + 1, proofConsumed |-> proofConsumed]
  ELSE IF ~proofConsumed /\ enc.inputProof # NoProof
    THEN [ok |-> TRUE, err |-> "none", src |-> ProofSrc,
          handleIndex |-> handleIndex, proofConsumed |-> TRUE]
  ELSE [ok |-> FALSE, err |-> "InsufficientHandles", src |-> ProofSrc,
        handleIndex |-> handleIndex, proofConsumed |-> proofConsumed]

\* fn.inputs.map(...) from parameter number index on; a throw of the callback
\* leaves the map, so no list is returned
RECURSIVE MapInputs(_, _, _, _, _)
MapInputs(enc, inputs, index, handleIndex, proofConsumed) ==
  IF index > Len(inputs) THEN [ok |-> TRUE, params |-> <<>>, err |-> "none", at |-> 0]
  ELSE LET c == ChooseRaw(enc, inputs[index], handleIndex, proofConsumed)
       IN IF ~c.ok THEN [ok |-> FALSE, params |-> <<>>, err |-> c.err, at |-> index]
          ELSE LET rest == MapInputs(enc, inputs, index + 1, c.handleIndex, c.proofConsumed)
               IN IF ~rest.ok THEN rest
                  ELSE [rest EXCEPT !.params =
                          <<[src |-> c.src, as |-> Coercion(inputs[index].type)]>> \o @]

buildParamsFromAbi(enc, inputs) == MapInputs(enc, inputs, 1, 0, FALSE)

ValueParam == [name |-> <<"v", "a", "l">>, internalType |-> <<"e", "3", "2">>, type |-> "bytes32"]
AmountParam == [name |-> <<"a", "m", "t">>, internalType |-> <<>>, type |-> "uint256"]
ProofParam ==
  [name |-> <<"i", "n", "P", "r", "o", "o", "f">>, internalType |-> <<>>, type |-> "bytes"]
UpperProofParam ==
  [name |-> <<"P", "R", "O", "O", "F">>, internalType |-> <<>>, type |-> "bytes"]
TypedProofParam ==
  [name |-> <<"a", "t", "t">>, internalType |-> <<"Z", "k", "P", "r", "o", "o", "f">>,
   type |-> "bytes"]
AbiInputs == {ValueParam, AmountParam, ProofParam, UpperProofParam, TypedProofParam}

\* the most parameters of a function and the most handles of an encryption
MaxInputs == 3
InputLists == UNION {[1..n -> AbiInputs] : n \in 0..MaxInputs}
\* handle k is the one-byte array [k]; the proof, when there is one, is [9]
EncryptResults ==
  {[handles |-> [k \in 1..n |-> <<k>>], inputProof |-> pr] :
     n \in 0..MaxInputs, pr \in {NoProof, <<9>>}}

ParamsInit ==
  /\ CoreIdle
  /\ mapping \in [pc : {"called"}, inputs : InputLists, enc : EncryptResults,
                  result : {[ok |-> TRUE, params |-> <<>>, err |-> "none", at |-> 0]}]
  /\ query = Idle /\ decrypt = Idle /\ store = Idle /\ browser = Idle /\ UiIdle

\* buildParamsFromAbi(enc, abi, functionName) returns or throws
BuildParams ==
  /\ mapping.pc = "called"
  /\ mapping' = [mapping EXCEPT !.pc = "returned",
                   !.result = buildParamsFromAbi(mapping.enc, mapping.inputs)]
  /\ UNCHANGED <<coreVars, query, decrypt, store, browser, uiVars>>

ParamsSpec == ParamsInit /\ [][BuildParams]_vars

\* the parameters whose written name or internal type contains "proof" in some
\* letter case
ProofNamed == {ProofParam, UpperProofParam, TypedProofParam}

NonProofBefore(i) ==
  Cardinality({j \in 1..(i - 1) : mapping.inputs[j] \notin ProofNamed})

Srcs == [i \in DOMAIN mapping.result.params |-> mapping.result.params[i].src]

\* C22: with N parameters that are not proof-named and exactly N handles plus a
\* proof, the call succeeds, the k-th such parameter receives handle k, every
\* handle is used exactly once, and each proof-named parameter receives the proof.
C22_HandlesInOrderProofByName ==
  (/\ mapping.pc = "returned"
   /\ mapping.enc.inputProof # NoProof
   /\ Len(mapping.enc.handles) = NonProofBefore(Len(mapping.inputs) + 1)) =>
    /\ mapping.result.ok
    /\ Len(mapping.result.params) = Len(mapping.inputs)
    /\ \A i \in DOMAIN mapping.inputs :
         Srcs[i] = IF mapping.inputs[i] \in ProofNamed THEN ProofSrc
                   ELSE NonProofBefore(i) + 1
    /\ \A k \in DOMAIN mapping.enc.handles :
         Cardinality({i \in DOMAIN Srcs : Srcs[i] = k}) = 1

\* the proof parameter, recognised by its internal type, stands first
C22_Witness ==
  /\ mapping.pc = "returned"
  /\ mapping.inputs = <<TypedProofParam, ValueParam, AmountParam>>
  /\ Len(mapping.enc.handles) = 2 /\ mapping.enc.inputProof # NoProof
  /\ mapping.result.ok /\ Srcs = <<ProofSrc, 1, 2>>

\* what the claim prescribes for parameter i when no earlier parameter failed
Prescribed(i) ==
  LET H == Len(mapping.enc.handles)
      hasProof == mapping.enc.inputProof # NoProof
      proofTaken == \/ \E j \in 1..(i - 1) : mapping.inputs[j] \in ProofNamed
                    \/ NonProofBefore(i) > H
  IN IF mapping.inputs[i] \in ProofNamed
       THEN IF hasProof THEN [ok |-> TRUE, src |-> ProofSrc, err |-> "none"]
            ELSE [ok |-> FALSE, src |-> ProofSrc, err |-> "MissingInputProof"]
     ELSE IF NonProofBefore(i) < H
       THEN [ok |-> TRUE, src |-> NonProofBefore(i) + 1, err |-> "none"]
     ELSE IF hasProof /\ ~proofTaken
       THEN [ok |-> TRUE, src |-> ProofSrc, err |-> "none"]
     ELSE [ok |-> FALSE, src |-> ProofSrc, err |-> "InsufficientHandles"]

\* C23: a parameter that is not proof-named takes the next unused handle, else
\* the proof if it has not been consumed, else the call fails with the
\* insufficient-handles error; a proof-named parameter without inputProof fails
\* with the missing-input-proof error; a failed call returns no argument list.
C23_FallbackAndFailures ==
  mapping.pc = "returned" =>
    LET failing == {i \in DOMAIN mapping.inputs : ~Prescribed(i).ok}
    IN IF failing = {}
         THEN /\ mapping.result.ok
              /\ Len(mapping.result.params) = Len(mapping.inputs)
              /\ \A i \in DOMAIN mapping.inputs : Srcs[i] = Prescribed(i).src
       ELSE LET f == CHOOSE i \in failing : \A j \in failing : i <= j
            IN /\ ~mapping.result.ok
               /\ mapping.result.err = Prescribed(f).err
               /\ mapping.result.at = f
               /\ mapping.result.params = <<>>

\* two parameters, one handle: the second parameter receives the proof; and a
\* third such parameter would have failed
C23_Witness ==
  /\ mapping.pc = "returned"
  /\ mapping.inputs = <<ValueParam, AmountParam>>
  /\ Len(mapping.enc.handles) = 1 /\ mapping.enc.inputProof # NoProof
  /\ mapping.result.ok /\ Srcs = <<1, ProofSrc>>
  /\ mapping.result.params[2].as = "coerceUintToBigInt"

(***************************************************************************)
(* userDecrypt and publicDecrypt (core/crypto/decryption.ts).  decrypt is  *)
(* one call: its arguments, the await it is suspended at, the argument     *)
(* list of FhevmDecryptionSignature.loadOrSign, the calls made on the      *)
(* instance and the number of reads of instance properties.                *)
(***************************************************************************)
MaxRequests == 3
Addresses == {"0xaaa", "0xAAA", "0xbbb"}
FHEDecryptRequests == [handle : {"0x1", "0x2"}, contractAddress : Addresses]
RequestLists == UNION {[1..n -> FHEDecryptRequests] : n \in 0..MaxRequests}

\* what loadOrSign resolves with: null, or a signature over the addresses asked
\* for, or a stored signature that covers more addresses
NullSig ==
  [present |-> FALSE, privateKey |-> "", publicKey |-> "", signature |-> "",
   contractAddresses |-> <<>>, userAddress |-> "", startTimestamp |-> 0, durationDays |-> 0]
FreshSig(addresses) ==
  [present |-> TRUE, privateKey |-> "priv", publicKey |-> "pub", signature |-> "sig",
   contractAddresses |-> addresses, userAddress |-> "0xuser",
   startTimestamp |-> 123, durationDays |-> 5]
StoredSig ==
  [present |-> TRUE, privateKey |-> "priv0", publicKey |-> "pub0", signature |-> "sig0",
   contractAddresses |-> <<"0xAAA", "0xaaa", "0xbbb">>, userAddress |-> "0xuser",
   startTimestamp |-> 100, durationDays |-> 30]

NoDecrypt ==
  [fn |-> "none", pc |-> "called", requests |-> <<>>, hasDecrypt |-> FALSE,
   signRequest |-> <<>>, sig |-> NullSig, calls |-> <<>>, instanceReads |-> 0,
   err |-> NoError, resolved |-> FALSE]

\* an address list with every request's address, duplicates included
uniqueAddressesKeepsDuplicates(requests) ==
  [i \in DOMAIN requests |-> requests[i].contractAddress]

\* Array.from(new Set(requests.map(r => r.contractAddress)))
uniqueAddresses(requests) ==
  Distinct([i \in DOMAIN requests |-> requests[i].contractAddress])

\* requests.map(r => ({handle: r.handle, contractAddress: r.contractAddress}))
mutableReqs(requests) ==
  [i \in DOMAIN requests |->
     [handle |-> requests[i].handle, contractAddress |-> requests[i].contractAddress]]

\* userDecrypt up to "await FhevmDecryptionSignature.loadOrSign(...)"
userDecryptStart(d) ==
  [d EXCEPT !.pc = "loadOrSign", !.signRequest = uniqueAddresses(d.requests)]

\* a continuation that calls the instance whatever loadOrSign returned
afterLoadOrSignUnchecked(d, o) ==
  IF ~o.ok THEN [d EXCEPT !.pc = "rejected", !.err = "loadOrSign"]
  ELSE [d EXCEPT !.pc = "userDecrypt", !.sig = o.sig,
          !.instanceReads = @ + 1,
          !.calls = Append(@, [requests |-> mutableReqs(d.requests), sig |-> o.sig])]

\* userDecrypt after loadOrSign settled, up to "await instance.userDecrypt(...)"
afterLoadOrSign(d, o) ==
  IF ~o.ok THEN [d EXCEPT !.pc = "rejected", !.err = "loadOrSign"]
  ELSE IF ~o.sig.present
    THEN [d EXCEPT !.pc = "rejected", !.err = "SignatureUnavailable", !.sig = o.sig]
  ELSE [d EXCEPT !.pc = "userDecrypt", !.sig = o.sig,
          !.instanceReads = @ + 1,
          !.calls = Append(@, [requests |-> mutableReqs(d.requests), sig |-> o.sig])]

\* userDecrypt after instance.userDecrypt settled
afterUserDecrypt(d, ok) ==
  IF ok THEN [d EXCEPT !.pc = "resolved", !.resolved = TRUE]
  ELSE [d EXCEPT !.pc = "rejected", !.err = "userDecrypt"]

\* a publicDecrypt that looks for the decrypt capability first
publicDecryptStartCapabilityFirst(d) ==
  IF ~d.hasDecrypt
    THEN [d EXCEPT !.pc = "rejected", !.err = "CapabilityMissing", !.instanceReads = @ + 1]
  ELSE IF Len(d.requests) = 0
    THEN [d EXCEPT !.pc = "rejected", !.err = "EmptyRequestList", !.instanceReads = @ + 1]
  ELSE [d EXCEPT !.pc = "decrypt", !.instanceReads = @ + 2,
          !.calls = Append(@, [requests |-> mutableReqs(d.requests), sig |-> NullSig])]

\* publicDecrypt up to "await instance.decrypt(mutableReqs)"
publicDecryptStart(d) ==
  IF Len(d.requests) = 0 THEN [d EXCEPT !.pc = "rejected", !.err = "EmptyRequestList"]
  ELSE IF ~d.hasDecrypt
    THEN [d EXCEPT !.pc = "rejected", !.err = "CapabilityMissing", !.instanceReads = @ + 1]
  ELSE [d EXCEPT !.pc = "decrypt", !.instanceReads = @ + 2,
          !.calls = Append(@, [requests |-> mutableReqs(d.requests), sig |-> NullSig])]

\* publicDecrypt after instance.decrypt settled; a failure is rethrown wrapped
afterDecrypt(d, ok) ==
  IF ok THEN [d EXCEPT !.pc = "resolved", !.resolved = TRUE]
  ELSE [d EXCEPT !.pc = "rejected", !.err = "publicDecrypt failed"]

DecryptInit ==
  /\ CoreIdle
  /\ decrypt \in {[NoDecrypt EXCEPT !.fn = f, !.requests = r, !.hasDecrypt = h] :
                    f \in {"userDecrypt", "publicDecrypt"}, r \in RequestLists, h \in BOOLEAN}
  /\ query = Idle /\ mapping = Idle /\ store = Idle /\ browser = Idle /\ UiIdle

UserDecryptStart ==
  /\ decrypt.fn = "userDecrypt" /\ decrypt.pc = "called"
  /\ decrypt' = userDecryptStart(decrypt)
  /\ UNCHANGED <<coreVars, query, mapping, store, browser, uiVars>>

LoadOrSignSettles ==
  /\ decrypt.pc = "loadOrSign"
  /\ \E o \in {[ok |-> FALSE, sig |-> NullSig], [ok |-> TRUE, sig |-> NullSig],
               [ok |-> TRUE, sig |-> FreshSig(decrypt.signRequest)],
               [ok |-> TRUE, sig |-> StoredSig]} :
       decrypt' = afterLoadOrSign(decrypt, o)
  /\ UNCHANGED <<coreVars, query, mapping, store, browser, uiVars>>

UserDecryptSettles ==
  /\ decrypt.pc = "userDecrypt"
  /\ \E ok \in BOOLEAN : decrypt' = afterUserDecrypt(decrypt, ok)
  /\ UNCHANGED <<coreVars, query, mapping, store, browser, uiVars>>

PublicDecryptStart ==
  /\ decrypt.fn = "publicDecrypt" /\ decrypt.pc = "called"
  /\ decrypt' = publicDecryptStart(decrypt)
  /\ UNCHANGED <<coreVars, query, mapping, store, browser, uiVars>>

DecryptSettles ==
  /\ decrypt.pc = "decrypt"
  /\ \E ok \in BOOLEAN : decrypt' = afterDecrypt(decrypt, ok)
  /\ UNCHANGED <<coreVars, query, mapping, store, browser, uiVars>>

DecryptNext ==
  \/ UserDecryptStart \/ LoadOrSignSettles \/ UserDecryptSettles
  \/ PublicDecryptStart \/ DecryptSettles

DecryptSpec == DecryptInit /\ [][DecryptNext]_vars

\* the position of the first request for an address
FirstRequestFor(addr) ==
  CHOOSE i \in DOMAIN decrypt.requests :
    /\ decrypt.requests[i].contractAddress = addr
    /\ \A j \in 1..(i - 1) : decrypt.requests[j].contractAddress # addr

\* C24: userDecrypt asks for a signature over the distinct contract addresses of
\* its requests in order of first appearance, and once it has a signature it has
\* called instance.userDecrypt exactly once, with the whole request list in its
\* original order, duplicates included, and with that signature's fields.
C24_SignDistinctDecryptAll ==
  (decrypt.fn = "userDecrypt" /\ decrypt.pc # "called") =>
    LET sr == decrypt.signRequest
    IN /\ {sr[i] : i \in DOMAIN sr} =
            {decrypt.requests[i].contractAddress : i \in DOMAIN decrypt.requests}
       /\ \A i, j \in DOMAIN sr :
            i < j => (sr[i] # sr[j] /\ FirstRequestFor(sr[i]) < FirstRequestFor(sr[j]))
       /\ Len(decrypt.calls) <= 1
       /\ decrypt.sig.present =>
            /\ Len(decrypt.calls) = 1
            /\ decrypt.calls[1].requests = decrypt.requests
            /\ decrypt.calls[1].sig = decrypt.sig

\* three requests, the first and the last for the same contract
C24_Witness ==
  /\ decrypt.fn = "userDecrypt" /\ decrypt.resolved
  /\ Len(decrypt.requests) = 3
  /\ decrypt.requests[1] = decrypt.requests[3]
  /\ decrypt.requests[1].contractAddress = "0xbbb"
  /\ decrypt.signRequest = <<"0xbbb", "0xaaa">>
  /\ Len(decrypt.calls) = 1 /\ decrypt.calls[1].requests = decrypt.requests

\* C25: when loadOrSign yields no signature, userDecrypt fails with the
\* signature-unavailable error and neither reads nor calls instance.userDecrypt.
C25_NoSignatureNoDecrypt ==
  (/\ decrypt.fn = "userDecrypt"
   /\ decrypt.pc \notin {"called", "loadOrSign"}
   /\ decrypt.err # "loadOrSign"
   /\ ~decrypt.sig.present) =>
    /\ decrypt.pc = "rejected" /\ decrypt.err = "SignatureUnavailable"
    /\ decrypt.calls = <<>> /\ decrypt.instanceReads = 0

C25_Witness ==
  /\ decrypt.fn = "userDecrypt" /\ decrypt.requests # <<>>
  /\ decrypt.err = "SignatureUnavailable" /\ decrypt.calls = <<>>

\* C26: publicDecrypt calls instance.decrypt only for a non-empty request list
\* and an instance that has decrypt; an empty list fails with the
\* empty-request-list error without any read of the instance, whether or not the
\* instance has decrypt; requests without the capability fail with the
\* capability-missing error.
C26_PublicDecryptGuards ==
  (decrypt.fn = "publicDecrypt" /\ decrypt.pc # "called") =>
    /\ decrypt.calls # <<>> => (decrypt.requests # <<>> /\ decrypt.hasDecrypt)
    /\ decrypt.requests = <<>> =>
         /\ decrypt.pc = "rejected" /\ decrypt.err = "EmptyRequestList"
         /\ decrypt.instanceReads = 0 /\ decrypt.calls = <<>>
    /\ (decrypt.requests # <<>> /\ ~decrypt.hasDecrypt) =>
         /\ decrypt.pc = "rejected" /\ decrypt.err = "CapabilityMissing"
         /\ decrypt.calls = <<>>

\* no requests and an instance without decrypt: the empty-list error wins
C26_Witness ==
  /\ decrypt.fn = "publicDecrypt" /\ decrypt.requests = <<>> /\ ~decrypt.hasDecrypt
  /\ decrypt.err = "EmptyRequestList" /\ decrypt.instanceReads = 0

(***************************************************************************)
(* The public-key stores: createMemoryPublicKeyStore keeps the records in  *)
(* a Map, createFilePublicKeyStore writes JSON.stringify(record) to        *)
(* <directory>/<acl>.json and returns JSON.parse of the file.  Values      *)
(* carry their JavaScript kind, so that the JSON conversion is computed.   *)
(***************************************************************************)
Undefined == [kind |-> "undefined"]
Null == [kind |-> "null"]
Uint8Array(bytes) == [kind |-> "Uint8Array", bytes |-> bytes]

\* JSON.parse(JSON.stringify(v)) of a leaf value: a typed array is written as
\* the object of its indices, {"0": 1, "1": 2}, and read back as that object
JsonValue(v) ==
  IF v.kind = "Uint8Array" THEN [kind |-> "object", props |-> v.bytes] ELSE v

\* JSON.parse(JSON.stringify(record)): a property that is undefined is left out
\* (and reads as undefined again), null stays null
JsonRoundTrip(rec) ==
  [publicKey |->
     IF rec.publicKey.kind = "publicKey"
       THEN [rec.publicKey EXCEPT !.data = JsonValue(@)] ELSE rec.publicKey,
   publicParams |->
     IF rec.publicParams.kind = "publicParams"
       THEN [rec.publicParams EXCEPT !.publicParams = JsonValue(@)] ELSE rec.publicParams]

\* PublicKeyRecord values: key and params as wrapInstanceWithStore writes them,
\* a key alone, and a record without byte data
FullRecord ==
  [publicKey |-> [kind |-> "publicKey", id |-> "pk1", data |-> Uint8Array(<<1, 2>>)],
   publicParams |->
     [kind |-> "publicParams", publicParamsId |-> "pp1", publicParams |-> Uint8Array(<<4>>)]]
KeyOnlyRecord ==
  [publicKey |-> [kind |-> "publicKey", id |-> "pk2", data |-> Uint8Array(<<9>>)],
   publicParams |-> Undefined]
BarePublicKeyRecord ==
  [publicKey |-> [kind |-> "publicKey", id |-> "pk3", data |-> Null],
   publicParams |-> Null]
PublicKeyRecords == {FullRecord, KeyOnlyRecord, BarePublicKeyRecord}

AclAddresses == {"0xa1", "0xb2"}
\* no Map entry, no file
Absent == [publicKey |-> Undefined, publicParams |-> Undefined, absent |-> TRUE]

\* what set leaves behind: the Map holds the record, the file its JSON text
Stored(kind, rec) == IF kind = "file" THEN JsonRoundTrip(rec) ELSE rec

\* get: "store.get(acl) ?? null", or JSON.parse of the file, null on ENOENT
storeGet(st, acl) == IF st.entries[acl] = Absent THEN Null ELSE st.entries[acl]

\* set: store.set(acl, value), or writeFile(file, JSON.stringify(value))
storeSet(st, acl, value) == [st EXCEPT !.entries[acl] = Stored(st.kind, value)]

\* delete: store.delete(acl), or unlink with ENOENT ignored
storeDelete(st, acl) == [st EXCEPT !.entries[acl] = Absent]

\* written[a] is the record of the latest set(a, r) not followed by delete(a)
StoreInit ==
  /\ CoreIdle
  /\ store \in {[kind |-> k, entries |-> [a \in AclAddresses |-> Absent],
                 written |-> [a \in AclAddresses |-> Absent],
                 last |-> [op |-> "create", acl |-> "", ok |-> TRUE, result |-> Null]] :
                  k \in {"memory", "file"}}
  /\ query = Idle /\ mapping = Idle /\ decrypt = Idle /\ browser = Idle /\ UiIdle

StoreGet(acl) ==
  /\ store' = [store EXCEPT
       !.last = [op |-> "get", acl |-> acl, ok |-> TRUE, result |-> storeGet(store, acl)]]
  /\ UNCHANGED <<coreVars, query, mapping, decrypt, browser, uiVars>>

StoreSet(acl, value) ==
  /\ store' = [storeSet(store, acl, value) EXCEPT
       !.written[acl] = value,
       !.last = [op |-> "set", acl |-> acl, ok |-> TRUE, result |-> Null]]
  /\ UNCHANGED <<coreVars, query, mapping, decrypt, browser, uiVars>>

StoreDelete(acl) ==
  /\ store' = [storeDelete(store, acl) EXCEPT
       !.written[acl] = Absent,
       !.last = [op |-> "delete", acl |-> acl, ok |-> TRUE, result |-> Null]]
  /\ UNCHANGED <<coreVars, query, mapping, decrypt, browser, uiVars>>

StoreNext ==
  \/ \E a \in AclAddresses : StoreGet(a)
  \/ \E a \in AclAddresses, r \in PublicKeyRecords : StoreSet(a, r)
  \/ \E a \in AclAddresses : StoreDelete(a)

StoreSpec == StoreInit /\ [][StoreNext]_vars

\* C27: in both stores get(a) returns null when a was never set or was deleted
\* after its last set, and otherwise the record of the most recent set(a, r),
\* whole and unmerged; delete of an absent key succeeds; set and delete on one
\* address leave every other address as it was.
C27_GetReturnsLastSet ==
  /\ store.last.op = "get" =>
       store.last.result =
         IF store.written[store.last.acl] = Absent THEN Null
         ELSE store.written[store.last.acl]
  /\ store.last.op = "delete" => store.last.ok
  /\ \A a \in AclAddresses :
       (store.written[a] = Absent) <=> (store.entries[a] = Absent)

(***************************************************************************)
(* The browser adapter's load() (core/adapters/browserRelayerClient.ts).   *)
(* browser.script is the state of the SDK script tag in the document,      *)
(* browser.tags the number of tags injected, browser.loads the calls of    *)
(* load(): each is pending on its own tag's events or settled, and a       *)
(* settled call remembers the state of the script when it settled;         *)
(* browser.inits the outcomes of the calls of init(), which needs the      *)
(* global the loaded script defines.                                       *)
(***************************************************************************)
MaxLoads == 4
MaxInits == 3

\* loadRelayerScript up to its return or its await: a tag with the SDK's src in
\* the document ends the call at once, otherwise a tag is appended and the call
\* waits for that tag's load or error event
loadRelayerScript(b) ==
  IF b.script # "none"
    THEN [b EXCEPT !.loads = Append(@, [state |-> "resolved", script |-> b.script])]
  ELSE [b EXCEPT !.script = "loading", !.tags = @ + 1,
          !.loads = Append(@, [state |-> "pending", script |-> "loading"])]

\* script.onload / script.onerror: the handlers belong to the call that created
\* the tag; the tag stays in the document either way
scriptEvent(b, event) ==
  [b EXCEPT !.script = event,
     !.loads = [i \in DOMAIN b.loads |->
                  IF b.loads[i].state = "pending"
                    THEN [state |-> IF event = "loaded" THEN "resolved" ELSE "rejected",
                          script |-> event]
                    ELSE b.loads[i]]]

\* getWindowRelayer, as init() calls it: window.relayerSDK is there once the
\* script has run, otherwise "relayer SDK not loaded" is thrown
getWindowRelayer(b) == IF b.script = "loaded" THEN "initSDK" ELSE "SdkNotLoaded"

BrowserInit ==
  /\ CoreIdle
  /\ browser = [script |-> "none", tags |-> 0, loads |-> <<>>, inits |-> <<>>]
  /\ query = Idle /\ mapping = Idle /\ decrypt = Idle /\ store = Idle /\ UiIdle

\* relayerClient.load() is called
Load ==
  /\ Len(browser.loads) < MaxLoads
  /\ browser' = loadRelayerScript(browser)
  /\ UNCHANGED <<coreVars, query, mapping, decrypt, store, uiVars>>

\* the script finished loading, or failed to
ScriptEvent(event) ==
  /\ browser.script = "loading"
  /\ browser' = scriptEvent(browser, event)
  /\ UNCHANGED <<coreVars, query, mapping, decrypt, store, uiVars>>

\* relayerClient.init() is called
Initialise ==
  /\ Len(browser.inits) < MaxInits
  /\ browser' = [browser EXCEPT !.inits = Append(@, getWindowRelayer(browser))]
  /\ UNCHANGED <<coreVars, query, mapping, decrypt, store, uiVars>>

BrowserNext == Load \/ Initialise \/ \E e \in {"loaded", "failed"} : ScriptEvent(e)

BrowserSpec == BrowserInit /\ [][BrowserNext]_vars

\* C28: every load() call resolves only once the script's load event has fired
\* and rejects when its error event fired, also a call made while another call
\* waits and a call made after a failed load; at most one tag is injected.
C28_LoadResolvesAfterLoadEvent ==
  /\ \A i \in DOMAIN browser.loads :
       /\ browser.loads[i].state = "resolved" => browser.loads[i].script = "loaded"
       /\ browser.script = "failed" => browser.loads[i].state = "rejected"
  /\ browser.script = "loaded" => browser.tags = 1

(***************************************************************************)
(* Further properties of the handle and of the pipeline                    *)
(***************************************************************************)
\* the attempts of the handle whose AbortController has not been aborted
Uncancelled == {n \in DOMAIN attempts : ~attempts[n].aborted}

\* C29: at most one attempt of a handle has a signal that is not aborted, and it
\* is the attempt of the latest refresh(): refresh() aborts the controller of the
\* attempt before it.
C29_OneUncancelledAttempt ==
  /\ Cardinality(Uncancelled) <= 1
  /\ \A n \in Uncancelled : n = Latest /\ n = handle.abortController

\* two pipeline runs in flight, the older one with its signal aborted
C29_Witness ==
  /\ Len(attempts) = 2
  /\ attempts[1].run.pc \in AwaitedSteps /\ attempts[1].aborted
  /\ attempts[2].run.pc \in AwaitedSteps /\ ~attempts[2].aborted

StatusSequence == <<"sdk-loading", "sdk-loaded", "sdk-initializing", "sdk-initialized", "creating">>

SettledOk(op) == \E i \in DOMAIN log : log[i].op = op /\ log[i].ok

\* C30: the callback receives a prefix of sdk-loading, sdk-loaded,
\* sdk-initializing, sdk-initialized, creating; load() is called after
\* sdk-loading and has returned before sdk-loaded, init() is called after
\* sdk-initializing and has returned before sdk-initialized; init() returning
\* false does not stop the run; a successful run has emitted all five.
C30_StatusSequence ==
  /\ ~run.onStatusChange => run.notes = <<>>
  /\ run.onStatusChange =>
       /\ \E k \in 0..Len(StatusSequence) : run.notes = SubSeq(StatusSequence, 1, k)
       /\ "load" \in Issued => Len(run.notes) >= 1
       /\ Len(run.notes) >= 2 => SettledOk("load")
       /\ "init" \in Issued => Len(run.notes) >= 3
       /\ Len(run.notes) >= 4 => SettledOk("init")
       /\ run.pc = "resolved" => run.notes = StatusSequence
  /\ (LastCall = [op |-> "init", ok |-> TRUE, v |-> 0] /\ ~signal) =>
       (run.err \in {NoError, "ProviderRequired"}
          /\ (run.onStatusChange => Len(run.notes) = 4))

\* a run whose init() returned false and that went on to return an instance
C30_Witness ==
  /\ run.pc = "resolved" /\ run.onStatusChange
  /\ \E i \in DOMAIN log : log[i] = [op |-> "init", ok |-> TRUE, v |-> 0]
  /\ run.notes = StatusSequence

(***************************************************************************)
(* Properties of the relayer-backed path                                   *)
(***************************************************************************)
\* the config resolveRelayerInstanceConfig yields for the run
RunRelayerConfig == MergedRelayerConfig(config, ExplicitOrReported)

\* what the store holds under the run's ACL address; nothing without a store
StoreRecord ==
  IF config.hasStore THEN CacheGet(cache, RunRelayerConfig.acl) ELSE NullRec

\* position in the log of the settled call op, 0 when there is none
LogIndex(op) ==
  IF \E i \in DOMAIN log : log[i].op = op
    THEN CHOOSE i \in DOMAIN log : log[i].op = op
    ELSE 0

\* C31: on the real path the cache read for the resolved ACL address has completed
\* when createInstance is invoked, and createInstance receives the publicKey and
\* publicParams of that read (undefined and null when the cache holds none)
\* together with the merged config and the effective provider.
C31_CacheReadFeedsCreation ==
  "createInstance" \in Issued =>
    /\ LogIndex("cacheGet") > 0 /\ log[LogIndex("cacheGet")].ok
    /\ LogIndex("createInstance") > 0 => LogIndex("cacheGet") < LogIndex("createInstance")
    /\ run.pc = "createInstance" =>
         /\ run.acl = RunRelayerConfig.acl
         /\ run.args.relayerConfig = RunRelayerConfig
         /\ run.args.network = run.provider
         /\ run.args.publicKey = (IF StoreRecord = NullRec THEN 0 ELSE StoreRecord.pk)
         /\ run.args.publicParams =
              (IF StoreRecord = NullRec \/ StoreRecord.pp = 0 THEN NullParams
               ELSE StoreRecord.pp)

\* createInstance is pending with the key and the params of a complete record,
\* read from the store for an injected provider
C31_Witness ==
  /\ run.pc = "createInstance" /\ config.hasStore
  /\ LastCall = [op |-> "cacheGet", ok |-> TRUE, v |-> 0]
  /\ run.args.network = Injected
  /\ run.args.publicKey = 1 /\ run.args.publicParams = 1
  /\ cache[run.acl] = [pk |-> 1, pp |-> 1]

\* the awaited call op of the run settles successfully in this step
SettlesOk(op) == run.pc = op /\ log' # log /\ LastCall'.ok

\* a record with a public key and with public params
HasBoth(rec) == rec # NullRec /\ rec.pk > 0 /\ rec.pp > 0

\* C32: after createInstance succeeded on the real path of a run that was not
\* cancelled (a store being configured, its calls and the instance's key
\* queries succeeding), the run writes the cache under
\* the ACL address exactly when the record it reads there is missing or lacks
\* publicKey or publicParams; with a complete record it returns the instance
\* without a write.  The written record is the instance's public key and its
\* public params.
C32_WriteIffIncomplete ==
  [][/\ (SettlesOk("createInstance") /\ ~signal) =>
          (run'.pc = IF config.hasStore THEN "wrapGet" ELSE "resolved")
     /\ SettlesOk("wrapGet") =>
          IF HasBoth(CacheGet(cache, RunRelayerConfig.acl))
            THEN run'.pc = "resolved" /\ run'.instance = run.instance /\ run'.toWrite = NullRec
            ELSE run'.pc = "wrapFetch"
     /\ SettlesOk("wrapFetch") =>
          /\ run'.pc = "wrapSet"
          /\ run'.toWrite # NullRec /\ run'.toWrite.pk = LastCall'.v
     /\ SettlesOk("wrapSet") =>
          /\ run'.pc = "resolved" /\ run'.instance = run.instance
          /\ cache' = [cache EXCEPT ![RunRelayerConfig.acl] = run.toWrite]
     /\ cache' # cache =>
          (SettlesOk("wrapSet") /\ ~HasBoth(CacheGet(cache, RunRelayerConfig.acl)))
    ]_vars

\* a run that found a record without public params and stored a complete one
C32_Witness ==
  /\ run.pc = "resolved" /\ LastCall.op = "wrapSet" /\ LastCall.ok
  /\ run.cached = [pk |-> 1, pp |-> 0]
  /\ cache[run.acl] = [pk |-> 1, pp |-> 1]
  /\ run.toWrite = cache[run.acl]

ConfigFields == {"acl", "kms", "inputVerifier", "kmsPublicKeyUrl"}

\* the pipeline steps of the relayer-backed path
RealPathSteps == {"cacheGet", "createInstance", "wrapGet", "wrapFetch", "wrapSet"}

\* the chain descriptor registered for the run's effective chain id, if any
RunChain ==
  IF ExplicitOrReported \in DOMAIN config.chains
    THEN config.chains[ExplicitOrReported]
    ELSE EmptyChain

\* field f by priority: the chain's own value, else its relayerConfig block's,
\* else the adapter baseline's
Chosen(f) ==
  IF RunChain[f] # NoAddr THEN RunChain[f]
  ELSE IF RunChain.relayerConfig[f] # NoAddr THEN RunChain.relayerConfig[f]
  ELSE config.baseline[f]

\* C33: on the real path the config that is validated and passed to creation
\* holds, for each of aclContractAddress, kmsContractAddress,
\* inputVerifierContractAddress and kmsPublicKeyUrl, the chain's own value when
\* present, else the value of the chain's metadata.relayerConfig when present,
\* else the adapter baseline's value.
C33_MergePriority ==
  RealPathEntered =>
    /\ run.err = "IncompleteRelayerConfig" =>
         Listed(run.missing) =
           {FieldName(f) : f \in {g \in ConfigFields \ {"kmsPublicKeyUrl"} : ~Starts0x(Chosen(g))}}
    /\ run.pc \in RealPathSteps =>
         /\ \A f \in ConfigFields : run.relayerConfig[f] = Chosen(f)
         /\ \A f \in ConfigFields \ {"kmsPublicKeyUrl"} : Starts0x(Chosen(f))
    /\ run.pc = "createInstance" =>
         \A f \in ConfigFields : run.args.relayerConfig[f] = Chosen(f)

\* creation is called with the chain's own ACL address and key URL (its
\* relayerConfig block names others), the block's KMS address (the baseline
\* names another) and the baseline's input verifier
C33_Witness ==
  /\ run.pc = "createInstance"
  /\ RunChain = LayeredChain /\ config.baseline = SepoliaBaseline
  /\ run.args.relayerConfig =
       [acl |-> AclChecksummed, kms |-> KmsR, inputVerifier |-> IvA, kmsPublicKeyUrl |-> UrlM]

\* the RPC URL a mock resolution is to carry: the caller's literal URL, else the
\* caller's table entry, else the built-in entry of chain 31337
MockRpcUrl ==
  IF run.provider # Injected THEN run.provider
  ELSE IF ReportedId \in DOMAIN config.mockChains THEN config.mockChains[ReportedId]
  ELSE HardhatRpcUrl

\* C34: for a reported chain id classified as mock, the resolution's rpcUrl is the
\* URL the caller passed as provider, otherwise the caller's mock-table entry for
\* that id, otherwise the built-in entry (31337 -> http://localhost:8545); a
\* caller's entry for 31337 replaces the built-in one; and the resolution fails
\* with the mock-chain-missing-RPC error exactly when no non-empty URL results.
C34_MockRpcUrlPrecedence ==
  MockReported =>
    /\ run.err = "MockChainMissingRpc" <=> MockRpcUrl = ""
    /\ Classified => (run.isMock /\ run.netChainId = ReportedId /\ run.rpcUrl = MockRpcUrl)

\* an injected provider on chain 31337 with a caller's table that names another
\* endpoint for it: the mock instance was created against the caller's endpoint
C34_Witness ==
  /\ run.provider = Injected /\ HasReported /\ ReportedId = HardhatChainId
  /\ config.mockChains = RemappedTable
  /\ run.pc = "resolved" /\ run.isMock /\ run.rpcUrl = OtherRpcUrl

\* the lowercase spelling of the ACL address configured for the run
LowercaseAcl == toLowerCase(RunRelayerConfig.acl)

\* C35: the pipeline addresses the public-key cache by the lowercase-normalized
\* ACL address: the record a run is handed before creation is the one stored
\* under the lowercase spelling of its configured address, and a write goes to
\* that entry, so that runs configured with the checksummed and with the
\* lowercase spelling of one address share an entry.
C35_CacheKeyLowercase ==
  [][/\ (SettlesOk("cacheGet") /\ config.hasStore /\ run'.pc = "createInstance") =>
          run'.cached = CacheGet(cache, LowercaseAcl)
     /\ cache' # cache => cache' = [cache EXCEPT ![LowercaseAcl] = run.toWrite]
    ]_vars

\* the calls of the mock path
MockOps == {"clientVersion", "relayerMetadata", "mockCreate"}

\* C40: the branch a run takes is decided by the chain id its provider reports:
\* the mock path for a key of the combined mock table, the real path otherwise.
\* An explicit chainId option that differs from the reported id changes the
\* chainId the run returns and the chain its relayer config is looked up for,
\* never the branch.
C40_BranchByReportedId ==
  HasReported =>
    /\ Issued \cap MockOps # {} => MockReported
    /\ Issued \cap StoreAndAdapterOps # {} => ~MockReported
    /\ run.pc = "resolved" =>
         /\ run.isMock <=> MockReported
         /\ run.chainId = ExplicitOrReported
    /\ run.pc \in RealPathSteps =>
         /\ ~run.isMock
         /\ run.relayerConfig = MergedRelayerConfig(config, ExplicitOrReported)

\* a provider on the local mock chain with the explicit chainId of a registered
\* real chain: the mock instance is returned under the explicit chainId
C40_Witness ==
  /\ run.pc = "resolved" /\ run.isMock
  /\ HasReported /\ ReportedId = HardhatChainId
  /\ run.chainIdOpt = 1 /\ 1 \in DOMAIN config.chains
  /\ run.chainId = 1
  /\ Issued \cap StoreAndAdapterOps = {}

(***************************************************************************)
(* Properties of buildParamsFromAbi, continued                             *)
(***************************************************************************)
\* the positions of the returned list filled from source k
FilledFrom(k) == {i \in DOMAIN Srcs : Srcs[i] = k}

\* C39: in every argument list returned, for any ABI, each handle fills at most
\* one parameter position and the input proof fills at most one parameter
\* position.
C39_EachSourceAtMostOnce ==
  (mapping.pc = "returned" /\ mapping.result.ok) =>
    /\ \A k \in DOMAIN mapping.enc.handles : Cardinality(FilledFrom(k)) <= 1
    /\ Cardinality(FilledFrom(ProofSrc)) <= 1

(***************************************************************************)
(* Storage overrides of the framework bindings: applyStorageOverrides of   *)
(* the Vue plugin (platform/vue/plugin.ts) and of the React provider       *)
(* (react/FhevmProvider.tsx), the same function in both.  Config objects   *)
(* live in a heap, a sequence of objects; a reference is an index into it, *)
(* so that "the same object" and "a new object" are different results.     *)
(***************************************************************************)
\* a store or storage object, told apart by its identity
Object(id) == [kind |-> "object", id |-> id]

\* a ?? b
Coalesce(a, b) == IF a \in {Undefined, Null} THEN b ELSE a

\* an override that assigns the stores to the config it was given
applyStorageOverridesInPlace(heap, config_, overrides) ==
  IF ~overrides.given THEN [heap |-> heap, ref |-> config_]
  ELSE [heap |-> [heap EXCEPT
                    ![config_].publicKeyStore = Coalesce(overrides.publicKeyStore, @),
                    ![config_].signatureStorage = Coalesce(overrides.signatureStorage, @)],
        ref |-> config_]

\* applyStorageOverrides(config, overrides): the heap after the call and the
\* reference returned
applyStorageOverrides(heap, config_, overrides) ==
  LET publicKeyStore == Coalesce(overrides.publicKeyStore, heap[config_].publicKeyStore)
      signatureStorage == Coalesce(overrides.signatureStorage, heap[config_].signatureStorage)
  IN IF ~overrides.given THEN [heap |-> heap, ref |-> config_]
     ELSE IF /\ publicKeyStore = heap[config_].publicKeyStore
             /\ signatureStorage = heap[config_].signatureStorage
       THEN [heap |-> heap, ref |-> config_]
     ELSE [heap |-> Append(heap, [heap[config_] EXCEPT !.publicKeyStore = publicKeyStore,
                                                      !.signatureStorage = signatureStorage]),
           ref |-> Len(heap) + 1]

\* the Config objects an application may pass: the other fields are summarised by
\* the relayer client and the default chain id
InputConfigs ==
  [publicKeyStore : {Object("memoryStore"), Object("fileStore")},
   signatureStorage : {Undefined, Object("localStorage")},
   relayerClient : {Object("browserClient")},
   defaultChainId : {1, HardhatChainId}]

\* the storageOverrides option or prop: absent, or an object whose fields may be
\* absent
StorageOverrides ==
  {[given |-> FALSE, publicKeyStore |-> Undefined, signatureStorage |-> Undefined]}
  \cup [given : {TRUE},
        publicKeyStore : {Undefined, Object("memoryStore"), Object("fileStore")},
        signatureStorage : {Undefined, Null, Object("localStorage"), Object("sessionStorage")}]

ContextInit ==
  /\ CoreIdle
  /\ query = Idle /\ mapping = Idle /\ decrypt = Idle /\ store = Idle /\ browser = Idle
  /\ hook = Idle /\ decryptHook = Idle
  /\ context \in [pc : {"created"}, heap : {<<c>> : c \in InputConfigs},
                   overrides : StorageOverrides, config : {1}, platform : {"none"}]

\* the context object both bindings build from the derived config
Provide(platform, derived) ==
  /\ context.pc = "created"
  /\ context' = [context EXCEPT !.pc = "provided", !.platform = platform,
                                !.heap = derived.heap, !.config = derived.ref]
  /\ UNCHANGED <<coreVars, query, mapping, decrypt, store, browser, hook, decryptHook>>

\* createFhevmVuePlugin(options)
CreatePlugin == Provide("vue", applyStorageOverrides(context.heap, 1, context.overrides))

\* the first render of <FhevmProvider>
RenderProvider == Provide("react", applyStorageOverrides(context.heap, 1, context.overrides))

ContextNext == CreatePlugin \/ RenderProvider

ContextSpec == ContextInit /\ [][ContextNext]_vars

\* the store an override names, the input's own where it names none
Effective(field) ==
  IF context.overrides.given /\ context.overrides[field] \notin {Undefined, Null}
    THEN context.overrides[field]
    ELSE context.heap[1][field]

\* C36: applying storage overrides never mutates the input Config; the result is
\* the input object itself when no override changes a field, and otherwise a new
\* object whose publicKeyStore and signatureStorage are the overridden values
\* and whose other fields are the input's.
C36_OverridesNeverMutate ==
  [][context'.pc = "provided" =>
       /\ context'.heap[1] = context.heap[1]
       /\ LET input == context.heap[1]
              result == context'.heap[context'.config]
          IN /\ result.publicKeyStore = Effective("publicKeyStore")
             /\ result.signatureStorage = Effective("signatureStorage")
             /\ result.relayerClient = input.relayerClient
             /\ result.defaultChainId = input.defaultChainId
             /\ context'.config = 1 <=> result = input
    ]_vars

\* an override of the signature storage alone gave a second Config object with
\* the input's public-key store, the input object being as it was
C36_Witness ==
  /\ context.pc = "provided" /\ context.config = 2 /\ Len(context.heap) = 2
  /\ context.overrides.publicKeyStore = Undefined
  /\ context.heap[1].signatureStorage = Undefined
  /\ context.heap[2].signatureStorage = Object("sessionStorage")
  /\ context.heap[2].publicKeyStore = context.heap[1].publicKeyStore

(***************************************************************************)
(* useFhevmInstance: the Vue composable (platform/vue/index.ts) and the    *)
(* React hook (platform/react/useFhevm.tsx).  hook.handle is the instance  *)
(* handle the hook owns; hook.calls[n] is the n-th invocation that reached *)
(* handle.refresh(): its token, the number of the invocation it was, the   *)
(* state of its controller's signal and how far it has come: "pending"     *)
(* while the pipeline runs, "settled" once refresh() has run its           *)
(* continuation and returned, "resumed" once the invocation has run the    *)
(* code after its await.                                                   *)
(***************************************************************************)
\* invocations of performRefresh / runRefresh
MaxInvocations == 3

\* how createConfiguredFhevmInstance can settle for a call whose signal is or is
\* not aborted: it resolves with the instance it made (n), fails at a step, or
\* throws the abort error; an abort that arrives after the last check of the
\* signal leaves it to resolve
PipelineOutcomes(n, aborted) ==
  {[ok |-> TRUE, instance |-> n, err |-> NoError],
   [ok |-> FALSE, instance |-> NoInstance, err |-> "createInstance"]}
  \cup (IF aborted THEN {[ok |-> FALSE, instance |-> NoInstance, err |-> AbortError]} ELSE {})

\* the reset both bindings apply when the hook is disabled or has no provider
\* or no chain id
resetToIdle(hk) ==
  [hk EXCEPT !.status = "idle", !.instance = NoInstance, !.error = NoError]

\* performRefresh / runRefresh up to the await of handle.refresh(); usable is
\* "enabled, with a provider and a numeric chain id"
performRefresh(hk, usable) ==
  LET aborted == [hk EXCEPT !.handle = abort(hk.handle),
                            !.calls = abortSignals(hk.handle, hk.calls),
                            !.invocations = @ + 1]
      n == Len(hk.calls) + 1
  IN IF ~usable THEN resetToIdle(aborted)
     ELSE [aborted EXCEPT
             !.refreshToken = @ + 1,
             !.status = "loading", !.instance = NoInstance, !.error = NoError,
             !.handle = refreshStart(aborted.handle, n),
             !.calls = Append(@, [token |-> hk.refreshToken + 1,
                                  invocation |-> hk.invocations + 1,
                                  aborted |-> FALSE, state |-> "pending",
                                  outcome |-> [ok |-> FALSE, instance |-> NoInstance,
                                               err |-> NoError]])]

\* the Vue composable after "await handle.refresh(...)"
afterRefreshVue(hk, n) ==
  IF hk.calls[n].token # hk.refreshToken THEN hk
  ELSE [hk EXCEPT !.status = hk.handle.status, !.instance = hk.handle.instance,
                  !.error = hk.handle.error]

\* the React hook after "await handle.refresh(...)"
afterRefreshReact(hk, n) ==
  IF hk.calls[n].token # hk.refreshToken THEN hk
  ELSE IF hk.handle.status = "ready"
    THEN [hk EXCEPT !.status = "ready", !.instance = hk.handle.instance, !.error = NoError]
  ELSE IF hk.handle.status = "error"
    THEN [hk EXCEPT !.status = "error", !.instance = NoInstance, !.error = hk.handle.error]
  ELSE [hk EXCEPT !.status = hk.handle.status]

HookInit ==
  /\ CoreIdle
  /\ query = Idle /\ mapping = Idle /\ decrypt = Idle /\ store = Idle /\ browser = Idle
  /\ context = Idle /\ decryptHook = Idle
  /\ hook \in [pc : {"mounted"}, platform : {"vue", "react"},
                status : {"idle"}, instance : {NoInstance}, error : {NoError},
                refreshToken : {0}, invocations : {0},
                handle : {InitHandle}, calls : {<<>>}]

\* the watcher or effect, or the application through refresh(), invokes
\* performRefresh / runRefresh
InvokeRefresh(usable) ==
  /\ hook.pc = "mounted"
  /\ hook.invocations < MaxInvocations
  /\ hook' = performRefresh(hook, usable)
  /\ UNCHANGED <<coreVars, query, mapping, decrypt, store, browser, context, decryptHook>>

\* the pipeline of call n settles and handle.refresh() runs to its end
HandleRefreshSettles(n) ==
  /\ hook.pc = "mounted"
  /\ n \in DOMAIN hook.calls
  /\ hook.calls[n].state = "pending"
  /\ \E o \in PipelineOutcomes(n, hook.calls[n].aborted) :
       hook' = [hook EXCEPT
                  !.handle = IF o.ok THEN onResolved(@, o.instance)
                             ELSE onRejected(@, hook.calls[n].aborted, o.err),
                  !.calls[n].state = "settled",
                  !.calls[n].outcome = o]
  /\ UNCHANGED <<coreVars, query, mapping, decrypt, store, browser, context, decryptHook>>

\* invocation n resumes after its await
InvocationResumes(n) ==
  /\ hook.pc = "mounted"
  /\ n \in DOMAIN hook.calls
  /\ hook.calls[n].state = "settled"
  /\ hook' = [(IF hook.platform = "vue" THEN afterRefreshVue(hook, n)
                                        ELSE afterRefreshReact(hook, n))
               EXCEPT !.calls[n].state = "resumed"]
  /\ UNCHANGED <<coreVars, query, mapping, decrypt, store, browser, context, decryptHook>>

HookNext ==
  \/ \E usable \in BOOLEAN : InvokeRefresh(usable)
  \/ \E n \in 1..MaxInvocations : HandleRefreshSettles(n)
  \/ \E n \in 1..MaxInvocations : InvocationResumes(n)

HookSpec == HookInit /\ [][HookNext]_vars

\* what the hook exposes
Exposed == <<hook.status, hook.instance, hook.error>>

\* call n resumes in this step
ResumesNow(n) == hook.calls[n].state = "settled" /\ hook'.calls[n].state = "resumed"

\* what call n came to
OutcomeOf(n) ==
  LET o == hook.calls[n].outcome
  IN IF o.ok THEN <<"ready", o.instance, NoError>> ELSE <<"error", NoInstance, o.err>>

\* C37: status, instance and error are written only by the most recent invocation:
\* an invocation superseded by a later one, including one that reset the state
\* to idle, changes none of them when it resumes, and when the latest invocation
\* resumes they are its outcome.
C37_OnlyLatestInvocationWrites ==
  [][\A n \in DOMAIN hook.calls :
       ResumesNow(n) =>
         IF hook.calls[n].invocation < hook.invocations
           THEN Exposed' = Exposed
           ELSE Exposed' = OutcomeOf(n)
    ]_vars

(***************************************************************************)
(* useUserDecrypt: the Vue composable (platform/vue/index.ts) and the      *)
(* React hook of the same name.  decryptHook.calls[n] is the n-th         *)
(* decrypt() call that reached userDecrypt: its token, whether it is still *)
(* pending and what userDecrypt came to; decryptHook.returnedEarly counts  *)
(* the calls that found no instance, no signer or no requests.             *)
(***************************************************************************)
\* decrypt() calls made on one hook
MaxDecrypts == 3

\* data before any decryption: {}
NoData == "{}"

\* what userDecrypt can come to for call n: a result, a thrown Error, a thrown
\* value that is no Error
UserDecryptOutcomes(n) ==
  {[kind |-> "result", value |-> <<"result", n>>],
   [kind |-> "Error", value |-> <<"SignatureError", n>>],
   [kind |-> "thrown", value |-> <<"rejected", n>>]}

\* the text both bindings store for a caught exception
errorText(platform, o) ==
  IF o.kind = "Error" THEN <<"name: message", o.value>>
  ELSE IF platform = "vue" THEN <<"String(err)", o.value>>
  ELSE <<"Unknown error: String(err)", o.value>>

\* decrypt() up to the await of userDecrypt; ready is "instance, signer and a
\* non-empty request list are there"
decryptStart(dh, ready) ==
  IF ~ready THEN [dh EXCEPT !.returnedEarly = @ + 1]
  ELSE [dh EXCEPT !.pendingToken = @ + 1, !.isDecrypting = TRUE, !.error = <<>>,
                  !.calls = Append(@, [token |-> dh.pendingToken + 1, state |-> "pending",
                                       outcome |-> [kind |-> "none", value |-> <<>>]])]

\* a continuation that clears isDecrypting whichever call it belongs to
decryptResumesNoTokenInFinally(dh, n, o) ==
  LET done == [dh EXCEPT !.calls[n].state = "done", !.calls[n].outcome = o,
                         !.isDecrypting = FALSE]
  IN IF dh.pendingToken # dh.calls[n].token THEN done
     ELSE IF o.kind = "result" THEN [done EXCEPT !.data = o.value, !.error = <<>>]
     ELSE [done EXCEPT !.error = errorText(dh.platform, o)]

\* decrypt() after the await: the rest of the try block or the catch block, then
\* the finally block
decryptResumes(dh, n, o) ==
  LET done == [dh EXCEPT !.calls[n].state = "done", !.calls[n].outcome = o]
  IN IF dh.pendingToken # dh.calls[n].token THEN done
     ELSE IF o.kind = "result"
       THEN [done EXCEPT !.data = o.value, !.error = <<>>, !.isDecrypting = FALSE]
     ELSE [done EXCEPT !.error = errorText(dh.platform, o), !.isDecrypting = FALSE]

DecryptHookInit ==
  /\ CoreIdle
  /\ query = Idle /\ mapping = Idle /\ decrypt = Idle /\ store = Idle /\ browser = Idle
  /\ context = Idle /\ hook = Idle
  /\ decryptHook \in [pc : {"mounted"}, platform : {"vue", "react"},
                       data : {<<NoData>>}, error : {<<>>}, isDecrypting : {FALSE},
                       pendingToken : {0}, returnedEarly : {0}, calls : {<<>>}]

\* the application calls decrypt()
CallDecrypt(ready) ==
  /\ decryptHook.pc = "mounted"
  /\ Len(decryptHook.calls) + decryptHook.returnedEarly < MaxDecrypts
  /\ decryptHook' = decryptStart(decryptHook, ready)
  /\ UNCHANGED <<coreVars, query, mapping, decrypt, store, browser, context, hook>>

\* userDecrypt of call n returns or throws, and the call resumes
UserDecryptReturns(n) ==
  /\ decryptHook.pc = "mounted"
  /\ n \in DOMAIN decryptHook.calls
  /\ decryptHook.calls[n].state = "pending"
  /\ \E o \in UserDecryptOutcomes(n) : decryptHook' = decryptResumes(decryptHook, n, o)
  /\ UNCHANGED <<coreVars, query, mapping, decrypt, store, browser, context, hook>>

DecryptHookNext ==
  \/ \E ready \in BOOLEAN : CallDecrypt(ready)
  \/ \E n \in 1..MaxDecrypts : UserDecryptReturns(n)

DecryptHookSpec == DecryptHookInit /\ [][DecryptHookNext]_vars

\* the latest call that started a decryption
LatestDecrypt == Len(decryptHook.calls)

\* call n settles in this step
DecryptSettlesNow(n) ==
  decryptHook.calls[n].state = "pending" /\ decryptHook'.calls[n].state = "done"

\* C38: with decrypt() called again while an earlier call is in flight, only the
\* outcome of the latest call that started a decryption is written to data and
\* error, and isDecrypting is true until that call settles and false afterwards,
\* in whatever order the calls settle.  (A call that returns at once, for want of
\* an instance, a signer or requests, starts nothing and writes nothing.)
C38_OnlyLatestDecryptWrites ==
  [][/\ \A n \in DOMAIN decryptHook.calls :
          DecryptSettlesNow(n) =>
            LET o == decryptHook'.calls[n].outcome
            IN IF n < LatestDecrypt
                 THEN /\ decryptHook'.data = decryptHook.data
                      /\ decryptHook'.error = decryptHook.error
                      /\ decryptHook'.isDecrypting = decryptHook.isDecrypting
               ELSE IF o.kind = "result"
                 THEN decryptHook'.data = o.value /\ decryptHook'.error = <<>>
               ELSE /\ decryptHook'.data = decryptHook.data
                    /\ decryptHook'.error # <<>> /\ decryptHook'.error[2] = o.value
     /\ decryptHook'.calls # <<>> =>
          (decryptHook'.isDecrypting <=>
             decryptHook'.calls[Len(decryptHook'.calls)].state = "pending")
     /\ decryptHook'.returnedEarly # decryptHook.returnedEarly =>
          /\ decryptHook'.data = decryptHook.data /\ decryptHook'.error = decryptHook.error
          /\ decryptHook'.isDecrypting = decryptHook.isDecrypting
    ]_vars

\* the first of two overlapping calls returned a result while the second is
\* still pending: nothing of it is shown and isDecrypting is still true
C38_Witness ==
  /\ Len(decryptHook.calls) = 2
  /\ decryptHook.calls[1].state = "done" /\ decryptHook.calls[1].outcome.kind = "result"
  /\ decryptHook.calls[2].state = "pending"
  /\ decryptHook.data = <<NoData>> /\ decryptHook.isDecrypting

====
